---- MODULE Spec2Model ----
(***************************************************************************)
(* A model of the extraction-and-orchestration subsystem:                  *)
(*   - the job lifecycle server (pipeline HTTP server),                    *)
(*   - the bounded conversation window (memory),                           *)
(*   - the agent loop and the pipeline orchestrator's per-URL loop.        *)
(* Each subsystem has its own specification over the shared variables;     *)
(* the variables of the other subsystems stay at their initial values.     *)
(***************************************************************************)
EXTENDS Integers, Sequences, FiniteSets, TLC

VARIABLES
    \* ---- job lifecycle server ----
    jobs,          \* the process-wide Map id -> PipelineJob
    task,          \* position of each job's startPipeline task
    reviews,       \* number of approve/deny requests that reached the job so far
    statusLog,     \* per job, every status value assigned to it, in order
    lastResponse,  \* the response the server sent last
    \* ---- conversation window (memory) ----
    messages,      \* db.data.messages, the transcript
    window,        \* what the latest getMessages call returned, and its limit
    \* ---- pipeline orchestrator and agent loop ----
    pc,            \* where the run of main stands
    failure,       \* the call whose exception made main reject ("none": none)
    searchResults, \* runSearchAgent's results, one URL list per query searched
    attempt,       \* braveSearch's attempt counter for the current query
    urlsToScrape,  \* the merged and truncated URL list
    ui,            \* index in urlsToScrape of the URL being processed
    jsonRetryCount,\* runAgent's repair counter
    turns,         \* model turns taken by the current runAgent call
    pendingCalls,  \* tool calls of the last assistant message not yet run
    agentHistory,  \* what runAgent returned for the current URL
    page,          \* the parsed first render of the fallback path
    probesLeft,    \* candidate links still to render on the fallback path
    scraped,       \* main's scraped array
    extracted,     \* main's extracted array (url, method, result)
    sanityDocs,    \* main's sanityDocs array
    agentDocs,     \* per finished URL, what parseAgentOutput returned
    directRenders, \* URLs main rendered itself, in call order
    run,           \* per job, where its orchestration task stands
    owners,        \* per transcript position, the job whose task appended it
    handed,        \* per job, the owners of the window last handed to the model
    lastBatch,     \* the batch of the addMessages call just made (<<>>: none)
    wiped,         \* jobs whose conversation in progress a reset of another job cleared
    qgen,          \* the call of runQueryGenerator: where it stands, what it saw and gave
    \* ---- single functions called on their own ----
    timeCall,      \* a call of toPeriodTime: its argument and what it returned
    hoursRun,      \* calls of extractHoursFromScraped: the pages and what was returned
    toolRun,       \* calls of runTool: the tool call and how the promise settled
    scan,          \* a call of getMessages followed through its widening loop
    search,        \* a call of braveSearch: its options, requests, waits and outcome
    flight,        \* a run's search calls and extractions: which are in flight, what is done
    linkCall,      \* a call of getHoursCandidateLinks: the page and what was returned
    fallback,      \* the fallback path of one URL: its renders and the hours it keeps
    urlLoop          \* a script's loop over URLs: whose messages each window held

jobVars == <<jobs, task, reviews, statusLog, lastResponse>>

memVars == <<messages, window>>

pipeVars == <<pc, failure, searchResults, attempt, urlsToScrape, ui, jsonRetryCount,
              turns, pendingCalls, agentHistory, page, probesLeft, scraped,
              extracted, sanityDocs, agentDocs, directRenders>>

vars == <<jobs, task, reviews, statusLog, lastResponse, messages, window,
          pc, failure, searchResults, attempt, urlsToScrape, ui, jsonRetryCount,
          turns, pendingCalls, agentHistory, page, probesLeft, scraped,
          extracted, sanityDocs, agentDocs, directRenders,
          run, owners, handed, wiped, lastBatch, qgen,
          timeCall, hoursRun, toolRun, scan, search, flight, linkCall, fallback,
          urlLoop>>

concVars == <<run, owners, handed, wiped>>

callVars == <<search, flight, linkCall, fallback, urlLoop>>

unitVars == <<timeCall, hoursRun, toolRun, scan, callVars>>

\* What the handlers of one part of the program never touch.
outsideJobs == <<memVars, lastBatch, pipeVars, concVars, qgen, unitVars>>
outsideMem == <<jobVars, pipeVars, concVars, qgen, unitVars>>
outsidePipe == <<jobVars, concVars, lastBatch, qgen, unitVars>>
outsideConc == <<jobVars, pipeVars, lastBatch, qgen, unitVars>>
outsideQueries == <<jobVars, memVars, lastBatch, pipeVars, concVars, unitVars>>
outsideAgent == <<searchResults, attempt, urlsToScrape, ui, page, probesLeft, scraped,
                  extracted, sanityDocs, agentDocs, directRenders,
                  jobVars, concVars, lastBatch, qgen, unitVars>>
systemVars == <<jobVars, memVars, lastBatch, pipeVars, concVars, qgen>>
outsideTimes == <<systemVars, hoursRun, toolRun, scan, callVars>>
outsideHours == <<systemVars, timeCall, toolRun, scan, callVars>>
outsideTool == <<systemVars, timeCall, hoursRun, scan, callVars>>
outsideScan == <<jobVars, lastBatch, pipeVars, concVars, qgen, timeCall, hoursRun, toolRun,
                 callVars>>
outsideSearch == <<systemVars, timeCall, hoursRun, toolRun, scan, flight, linkCall, fallback,
                   urlLoop>>
outsideFlight == <<systemVars, timeCall, hoursRun, toolRun, scan, search, linkCall, fallback,
                   urlLoop>>
outsideLinks == <<systemVars, timeCall, hoursRun, toolRun, scan, search, flight, fallback,
                  urlLoop>>
outsideFallback == <<systemVars, timeCall, hoursRun, toolRun, scan, search, flight, linkCall,
                     urlLoop>>
outsideBatch == <<jobVars, lastBatch, pipeVars, concVars, qgen, timeCall, hoursRun, toolRun,
                  scan, search, flight, linkCall, fallback>>

(***************************************************************************)
(* Bounds of the model.                                                    *)
(***************************************************************************)
MaxJobs == 2
MaxReviews == 2
MaxTranscript == 4     \* longest transcript the memory specification builds
MaxLimit == 3          \* largest limit passed to getMessages
MaxQueries == 2        \* queries of one run (the generator returns ten)
MaxUrlsArg == 2        \* the maxUrls argument of the run
MaxTurns == 3          \* model turns one runAgent call may take
MaxStored == 2         \* messages the size specification stores

(***************************************************************************)
(*                        JOB LIFECYCLE SERVER                             *)
(***************************************************************************)
JobIds == 1..MaxJobs

JobStatus == {"queued", "running", "ready_for_review", "approved", "denied", "failed"}

\* nowIso() as seen by one job: the wall clock is monotone and no handler
\* compares the timestamps of two jobs, so only the order of the writes to one
\* job matters.  Time is read once per handler run; the first write of a job
\* happens at time FirstInstant and every later write of the same job at a
\* time after its last updatedAt.
FirstInstant == 1

nowIso(job) == job.updatedAt + 1

\* Request bodies. "malformed" is a body that JSON.parse rejects.
PostBodies == {"valid", "blank", "malformed"}
ReviewBodies == {"empty", "r1", "malformed"}

NoResponse == [kind |-> "none", id |-> 0, code |-> 0, status |-> "none"]

\* sendJson(res, status, payload): the response to a request of the given
\* kind for the given job id; st is the status field of the job in the payload
\* ("none" when the payload is an error object, code 0 when nothing is sent).
sendJson(kind, id, code, st) ==
    [kind |-> kind, id |-> id, code |-> code, status |-> st]

\* The object literal of the POST /jobs handler.
newJob(t) ==
    [status |-> "queued", createdAt |-> t, updatedAt |-> t, input |-> "in",
     output |-> "none", error |-> "none", approvedAt |-> 0, deniedAt |-> 0,
     reviewer |-> "none"]

\* The job is stamped anew, its creation time included.
setJobStatus_Restamp(job, status, t) ==
    [job EXCEPT !.status = status, !.updatedAt = t, !.createdAt = t]

setJobStatus(job, status, t) ==
    [job EXCEPT !.status = status, !.updatedAt = t]

\* startPipeline up to its first await: the status becomes running and
\* runPipeline is called.
startPipelineSync(job, t) == setJobStatus(job, "running", t)

\* startPipeline after runPipeline resolved.
startPipelineResolved_NoOutput(job, t) == setJobStatus(job, "ready_for_review", t)

startPipelineResolved(job, t) ==
    setJobStatus([job EXCEPT !.output = "out"], "ready_for_review", t)

\* startPipeline's catch block.
startPipelineCatch_NoStatus(job, t) == [job EXCEPT !.error = "err"]

startPipelineCatch(job, t) ==
    setJobStatus([job EXCEPT !.error = "err"], "failed", t)

\* The body of the approve and deny handlers after the job was found and
\* the request body parsed.
reviewJob(job, kind, body, t) ==
    LET r == IF body = "r1" THEN "r1" ELSE job.reviewer
        stamped == IF kind = "approve"
                   THEN [job EXCEPT !.reviewer = r, !.approvedAt = t]
                   ELSE [job EXCEPT !.reviewer = r, !.deniedAt = t]
    IN  setJobStatus(stamped, IF kind = "approve" THEN "approved" ELSE "denied", t)

\* The valid branch of the POST /jobs handler, in program order: the job is
\* stored, the 202 response is sent, then startPipeline runs to its first
\* await.  Returns the stored job, the response and the statuses assigned.
postJobsValid_StartFirst(id, t) ==
    LET job == newJob(t)
        started == startPipelineSync(job, t)
        resp == sendJson("post", id, 202, started.status)
    IN  [job |-> started, resp |-> resp, log |-> <<job.status, started.status>>]

postJobsValid(id, t) ==
    LET job == newJob(t)
        resp == sendJson("post", id, 202, job.status)
        started == startPipelineSync(job, t)
    IN  [job |-> started, resp |-> resp, log |-> <<job.status, started.status>>]

InitJobs ==
    /\ jobs = <<>>
    /\ task = <<>>
    /\ reviews = 0
    /\ statusLog = <<>>
    /\ lastResponse = NoResponse

\* POST /jobs
PostJobs(body) ==
    /\ body \in PostBodies
    /\ IF body = "valid"
       THEN /\ Cardinality(DOMAIN jobs) < MaxJobs
            /\ LET id == Cardinality(DOMAIN jobs) + 1   \* randomUUID(): a fresh id
                   r == postJobsValid(id, FirstInstant)
               IN  /\ jobs' = (id :> r.job) @@ jobs
                   /\ task' = (id :> "awaiting") @@ task
                   /\ statusLog' = (id :> r.log) @@ statusLog
                   /\ lastResponse' = r.resp
            /\ UNCHANGED reviews
       ELSE /\ lastResponse' = sendJson("post", 0, 400, "none")
            /\ UNCHANGED <<jobs, task, reviews, statusLog>>
    /\ UNCHANGED outsideJobs

\* runPipeline resolved: the rest of startPipeline's try block.
PipelineReturns(id) ==
    /\ id \in DOMAIN jobs
    /\ task[id] = "awaiting"
    /\ jobs' = [jobs EXCEPT ![id] = startPipelineResolved(@, nowIso(@))]
    /\ task' = [task EXCEPT ![id] = "returned"]
    /\ statusLog' = [statusLog EXCEPT ![id] = Append(@, jobs'[id].status)]
    /\ UNCHANGED <<reviews, lastResponse>>
    /\ UNCHANGED outsideJobs

\* runPipeline rejected: startPipeline's catch block.
PipelineThrows(id) ==
    /\ id \in DOMAIN jobs
    /\ task[id] = "awaiting"
    /\ jobs' = [jobs EXCEPT ![id] = startPipelineCatch(@, nowIso(@))]
    /\ task' = [task EXCEPT ![id] = "threw"]
    /\ statusLog' = [statusLog EXCEPT ![id] =
                        IF jobs'[id].status # jobs[id].status
                        THEN Append(@, jobs'[id].status) ELSE @]
    /\ UNCHANGED <<reviews, lastResponse>>
    /\ UNCHANGED outsideJobs

\* A lookup that finds nothing.
hasJob_Miss(store, id) == FALSE

\* jobs.has(jobId), and jobs.get(jobId) giving a job
hasJob(store, id) == id \in DOMAIN store

\* GET /jobs/:id
GetJob(id) ==
    /\ id \in JobIds
    /\ lastResponse' = IF hasJob(jobs, id)
                       THEN sendJson("get", id, 200, jobs[id].status)
                       ELSE sendJson("get", id, 404, "none")
    /\ UNCHANGED <<jobs, task, reviews, statusLog>>
    /\ UNCHANGED outsideJobs

\* POST /jobs/:id/approve and POST /jobs/:id/deny
Review(kind, id, body) ==
    /\ kind \in {"approve", "deny"}
    /\ id \in JobIds
    /\ body \in ReviewBodies
    /\ IF ~hasJob(jobs, id)
       THEN /\ lastResponse' = sendJson(kind, id, 404, "none")
            /\ UNCHANGED <<jobs, task, reviews, statusLog>>
       ELSE IF body = "malformed"
       THEN \* parseBody rejects outside any try block: no response is sent
            /\ lastResponse' = sendJson(kind, id, 0, "none")
            /\ UNCHANGED <<jobs, task, reviews, statusLog>>
       ELSE /\ reviews < MaxReviews
            /\ jobs' = [jobs EXCEPT ![id] = reviewJob(@, kind, body, nowIso(@))]
            /\ statusLog' = [statusLog EXCEPT ![id] = Append(@, jobs'[id].status)]
            /\ lastResponse' = sendJson(kind, id, 200, jobs'[id].status)
            /\ reviews' = reviews + 1
            /\ UNCHANGED task
    /\ UNCHANGED outsideJobs

NextJobs ==
    \/ \E body \in PostBodies : PostJobs(body)
    \/ \E id \in JobIds : PipelineReturns(id)
    \/ \E id \in JobIds : PipelineThrows(id)
    \/ \E id \in JobIds : GetJob(id)
    \/ \E kind \in {"approve", "deny"}, id \in JobIds, body \in ReviewBodies :
          Review(kind, id, body)

\* The other subsystems at rest.
IdleMem ==
    /\ messages = <<>>
    /\ lastBatch = <<>>
    /\ window = [called |-> FALSE, limit |-> <<>>, slice |-> <<>>]

NoPage == [kind |-> "none", httpOk |-> FALSE, hours |-> FALSE, ncand |-> 0]

\* The jobs whose orchestration tasks are followed side by side.
ConcurrentJobs == {1, 2}

NoRun == [pc |-> "absent", left |-> 0, turns |-> 0, retry |-> 0]

\* A model output is described by its fence, its form and its items.
NoText == [fence |-> "none", form |-> "none", items |-> <<>>]

NoCall == [pc |-> "idle", output |-> NoText, result |-> <<>>, calls |-> 0, first |-> <<>>]

IdleQueries == qgen = NoCall

\* No function is being called on its own.
NoTimeCall == [pc |-> "idle", isString |-> FALSE, chars |-> <<>>,
               result |-> [kind |-> "none", chars |-> <<>>]]
IdleTimes == timeCall = NoTimeCall
NoScanner == [grabNext |-> 0, pendingDay |-> <<>>, candidates |-> <<>>]
IdleHours ==
    hoursRun = [pc |-> "idle", target |-> [ld |-> <<>>, text |-> <<>>], first |-> <<>>,
                again |-> <<>>, calls |-> 0, prev |-> <<>>, before |-> <<>>,
                left |-> NoScanner]
NoToolCall == [name |-> "", arguments |-> "empty"]
NoSettlement == [state |-> "pending", value |-> "none"]
IdleTool ==
    toolRun = [pc |-> "idle", call |-> NoToolCall, invoked |-> FALSE,
               settled |-> NoSettlement, calls |-> 0]
IdleScan == scan = [pc |-> "idle", limit |-> <<>>, start |-> 0, steps |-> 0]

IdleSearch ==
    search = [pc |-> "idle", maxRetries |-> 0, retryDelayMs |-> 0, attempt |-> 0,
              requests |-> 0, waits |-> <<>>, statuses |-> <<>>]
IdleFlight ==
    flight = [pc |-> "idle", queries |-> <<>>, delayMs |-> 0, urls |-> <<>>,
              inFlight |-> {}, results |-> <<>>, records |-> <<>>, log |-> <<>>]
IdleLinks == linkCall = [pc |-> "idle", page |-> <<>>, base |-> <<>>, links |-> <<>>]
IdleFallback ==
    fallback = [pc |-> "idle", first |-> <<>>, ranked |-> 0, candidates |-> <<>>,
                renders |-> <<>>, seen |-> <<>>, docs |-> <<>>]
IdleUrlLoop ==
    urlLoop = [pc |-> "idle", entry |-> "none", url |-> 0, owners |-> <<>>,
             atStart |-> <<>>, handed |-> <<>>, read |-> <<>>, turns |-> 0,
             jsonRetryCount |-> 0]
IdleCalls == IdleSearch /\ IdleFlight /\ IdleLinks /\ IdleFallback /\ IdleUrlLoop

IdleConc ==
    /\ run = [id \in ConcurrentJobs |-> NoRun]
    /\ owners = <<>>
    /\ handed = [id \in ConcurrentJobs |-> <<>>]
    /\ wiped = {}

IdlePipe ==
    /\ pc = "idle"
    /\ failure = "none"
    /\ searchResults = <<>>
    /\ attempt = 0
    /\ urlsToScrape = <<>>
    /\ ui = 0
    /\ jsonRetryCount = 0
    /\ turns = 0
    /\ pendingCalls = <<>>
    /\ agentHistory = <<>>
    /\ page = NoPage
    /\ probesLeft = 0
    /\ scraped = <<>>
    /\ extracted = <<>>
    /\ sanityDocs = <<>>
    /\ agentDocs = <<>>
    /\ directRenders = <<>>

\* The server alone: no run of the orchestrator is modelled inside a job.
InitServer ==
    /\ InitJobs /\ IdleMem /\ IdlePipe /\ IdleConc /\ IdleQueries
    /\ IdleTimes /\ IdleHours /\ IdleTool /\ IdleScan /\ IdleCalls

SpecJobs == InitServer /\ [][NextJobs]_vars

\* The orchestrator call of every started job returns or throws.
SpecJobsFair ==
    /\ SpecJobs
    /\ WF_vars(\E id \in JobIds : PipelineReturns(id) \/ PipelineThrows(id))

(***************************************************************************)
(*                     CONVERSATION WINDOW (MEMORY)                        *)
(***************************************************************************)
TOOL_MAX == 16000

Max(a, b) == IF a >= b THEN a ELSE b

\* Number of decimal digits of n >= 0.
RECURSIVE Digits(_)
Digits(n) == IF n < 10 THEN 1 ELSE 1 + Digits(n \div 10)

\* Length of the marker `\n...[truncated ${n} chars]`.
markerLength(n) == 15 + Digits(n) + 7

\* An element of a batch handed to addMessages.  shape tells a null, a
\* primitive and an object apart; role is "absent" for an object without a
\* role key; id is tool_call_id (0: absent); calls are the ids of
\* tool_calls; content is described by its length, by the number of
\* characters cut from it (0: stored whole) and by a token for what it says.
Element(shape, role, id, calls, len, text) ==
    [shape |-> shape, role |-> role, id |-> id, calls |-> calls,
     len |-> len, cut |-> 0, text |-> text]

UserMsg(text) == Element("object", "user", 0, {}, 1, text)
AssistantMsg(calls, text) ==
    Element("object", "assistant", 0, calls, IF text = "" THEN 0 ELSE 1, text)
ToolMsg(id, len) == Element("object", "tool", id, {}, len, "result")

NullElement == Element("null", "absent", 0, {}, 0, "")
PrimitiveElement == Element("primitive", "absent", 0, {}, 0, "")
NoRoleElement == Element("object", "absent", 0, {}, 1, "text")

\* The filter without its test of the role key.
isValidMessage_AnyObject(m) == m.shape = "object"

\* addMessages: the filter on batch elements.
isValidMessage(m) == m.shape = "object" /\ m.role # "absent"

\* The trim without its test of the role.
trimMessage_AnyRole(m) ==
    IF m.len > TOOL_MAX
    THEN [m EXCEPT !.len = TOOL_MAX + markerLength(m.len - TOOL_MAX),
                   !.cut = m.len - TOOL_MAX]
    ELSE m

\* addMessages: the map that trims oversized tool content.
trimMessage(m) ==
    IF m.role = "tool" /\ m.len > TOOL_MAX
    THEN [m EXCEPT !.len = TOOL_MAX + markerLength(m.len - TOOL_MAX),
                   !.cut = m.len - TOOL_MAX]
    ELSE m

RECURSIVE validTrimmed(_)
validTrimmed(batch) ==
    IF batch = <<>> THEN <<>>
    ELSE IF isValidMessage(Head(batch))
         THEN <<trimMessage(Head(batch))>> \o validTrimmed(Tail(batch))
         ELSE validTrimmed(Tail(batch))

\* addMessages(batch) applied to the transcript all.
addMessages(all, batch) == all \o validTrimmed(batch)

\* all.findIndex(assistant message whose tool_calls hold id); positions are
\* counted from 1 here, and 0 stands for findIndex's -1.
assistantIndex(all, id) ==
    LET hits == {i \in DOMAIN all : all[i].role = "assistant" /\ id \in all[i].calls}
    IN  IF hits = {} THEN 0 ELSE CHOOSE i \in hits : \A j \in hits : i <= j

\* The run without its test that the owner lies before the window start.
adjustForToolDependencies_AnyOwner(all, start) ==
    LET hits == {i \in start..Len(all) :
                    /\ all[i].role = "tool"
                    /\ all[i].id # 0
                    /\ assistantIndex(all, all[i].id) # 0}
    IN  IF hits = {} THEN start
        ELSE assistantIndex(all, all[CHOOSE i \in hits : \A j \in hits : i <= j].id)

\* One run of adjustForToolDependencies on the window starting at start:
\* the new start (start itself when the run returns false).
adjustForToolDependencies(all, start) ==
    LET hits == {i \in start..Len(all) :
                    /\ all[i].role = "tool"
                    /\ all[i].id # 0
                    /\ assistantIndex(all, all[i].id) # 0
                    /\ assistantIndex(all, all[i].id) < start}
    IN  IF hits = {} THEN start
        ELSE assistantIndex(all, all[CHOOSE i \in hits : \A j \in hits : i <= j].id)

\* while (adjustForToolDependencies()) {}
expandStart_Once(all, start) == adjustForToolDependencies(all, start)

RECURSIVE expandStart(_, _)
expandStart(all, start) ==
    LET next == adjustForToolDependencies(all, start)
    IN  IF next = start THEN start ELSE expandStart(all, next)

\* limit ?? 2
effectiveLimit_Two(limit) == IF limit = <<>> THEN 2 ELSE limit[1]

\* limit ?? 1.  The optional argument is <<>> when omitted and <<n>> when
\* given.
effectiveLimit(limit) == IF limit = <<>> THEN 1 ELSE limit[1]

\* getMessages without the widening loop.
getMessages_Tail(all, limit) ==
    LET eff == effectiveLimit(limit)
    IN  IF Len(all) <= eff THEN all
        ELSE SubSeq(all, Max(0, Len(all) - eff) + 1, Len(all))

getMessages(all, limit) ==
    LET eff == effectiveLimit(limit)
    IN  IF Len(all) <= eff THEN all
        ELSE SubSeq(all, expandStart(all, Max(0, Len(all) - eff) + 1), Len(all))

\* The elements and batches the memory specification passes to addMessages.
ToolIds == {1, 2}

MemMessages ==
    {UserMsg("text")}
    \cup {AssistantMsg(c, "") : c \in (SUBSET ToolIds) \ {{}}}
    \cup {ToolMsg(id, 1) : id \in ToolIds \cup {0}}
    \cup {ToolMsg(0, TOOL_MAX + 1)}

MemBatches ==
    {<<m>> : m \in MemMessages \cup {NullElement, PrimitiveElement, NoRoleElement}}
    \cup {<<a, b>> : a, b \in {UserMsg("text"), AssistantMsg({1}, ""),
                                NoRoleElement, NullElement}}

Limits == {<<>>} \cup {<<n>> : n \in 0..MaxLimit}

NoWindow == [called |-> FALSE, limit |-> <<>>, slice |-> <<>>]

InitMem ==
    /\ messages = <<>>
    /\ lastBatch = <<>>
    /\ window = NoWindow

\* await addMessages(batch)
AddMessages(batch) ==
    /\ batch \in MemBatches
    /\ Len(addMessages(messages, batch)) <= MaxTranscript
    /\ messages' = addMessages(messages, batch)
    /\ lastBatch' = batch
    /\ window' = NoWindow
    /\ UNCHANGED outsideMem

\* await resetMessages() / reset()
ResetMessages ==
    /\ messages' = <<>>
    /\ lastBatch' = <<>>
    /\ window' = NoWindow
    /\ UNCHANGED outsideMem

\* await getMessages(limit)
GetMessages(limit) ==
    /\ limit \in Limits
    /\ window' = [called |-> TRUE, limit |-> limit,
                  slice |-> getMessages(messages, limit)]
    /\ lastBatch' = <<>>
    /\ UNCHANGED messages
    /\ UNCHANGED outsideMem

NextMem ==
    \/ \E batch \in MemBatches : AddMessages(batch)
    \/ ResetMessages
    \/ \E limit \in Limits : GetMessages(limit)

\* The memory module alone, under every sequence of its calls.
\* Messages of every role with string content of the lengths around the
\* threshold; 20000 is the length the repository's test uses.
SizedLengths == {1, TOOL_MAX, TOOL_MAX + 1, TOOL_MAX + 24, TOOL_MAX + 25, 20000}

SizedMessages ==
    {Element("object", role, 0, {}, len, "text") :
        role \in {"user", "assistant", "tool"}, len \in SizedLengths}

\* await addMessages([m]) for a message of a given role and size.
StoreMessage(m) ==
    /\ m \in SizedMessages
    /\ Len(messages) < MaxStored
    /\ messages' = addMessages(messages, <<m>>)
    /\ lastBatch' = <<m>>
    /\ window' = NoWindow
    /\ UNCHANGED outsideMem

\* await getMessages(): what the test reads back.
ReadBack ==
    /\ lastBatch # <<>>
    /\ window' = [called |-> TRUE, limit |-> <<>>, slice |-> getMessages(messages, <<>>)]
    /\ UNCHANGED <<messages, lastBatch>>
    /\ UNCHANGED outsideMem

NextSizes ==
    \/ \E m \in SizedMessages : StoreMessage(m)
    \/ ReadBack
    \/ ResetMessages

\* ---- getMessages followed through its loop -----------------------------
\* The transcripts the loop is followed on: every sequence of up to
\* MaxTranscript stored messages.
ScanMessages ==
    {UserMsg("text"), ToolMsg(0, 1)}
    \cup {AssistantMsg(c, "") : c \in (SUBSET ToolIds) \ {{}}}
    \cup {ToolMsg(id, 1) : id \in ToolIds}

RECURSIVE TranscriptsUpTo(_)
TranscriptsUpTo(n) ==
    IF n = 0 THEN {<<>>}
    ELSE TranscriptsUpTo(n - 1)
         \cup {Append(t, m) : t \in {u \in TranscriptsUpTo(n - 1) : Len(u) = n - 1},
                              m \in ScanMessages}

\* getMessages(limit) is entered on some transcript.
InitScan ==
    /\ messages \in TranscriptsUpTo(MaxTranscript)
    /\ lastBatch = <<>>
    /\ window = NoWindow
    /\ \E limit \in Limits : scan = [pc |-> "entered", limit |-> limit, start |-> 0,
                                      steps |-> 0]

\* Lines 55-59: the early return, or the first window start (counted
\* from 1).
ScanEnter ==
    /\ scan.pc = "entered"
    /\ LET eff == effectiveLimit(scan.limit)
       IN  IF Len(messages) <= eff
           THEN /\ scan' = [scan EXCEPT !.pc = "returned"]
                /\ window' = [called |-> TRUE, limit |-> scan.limit, slice |-> messages]
           ELSE /\ scan' = [scan EXCEPT !.pc = "loop",
                                        !.start = Max(0, Len(messages) - eff) + 1]
                /\ UNCHANGED window
    /\ UNCHANGED <<messages, outsideScan>>

\* adjustForToolDependencies() returned true: the window start moved.
ScanWiden ==
    /\ scan.pc = "loop"
    /\ adjustForToolDependencies(messages, scan.start) # scan.start
    /\ scan' = [scan EXCEPT !.start = adjustForToolDependencies(messages, scan.start),
                            !.steps = @ + 1]
    /\ UNCHANGED <<messages, window, outsideScan>>

\* adjustForToolDependencies() returned false: return all.slice(start).
ScanReturn ==
    /\ scan.pc = "loop"
    /\ adjustForToolDependencies(messages, scan.start) = scan.start
    /\ scan' = [scan EXCEPT !.pc = "returned"]
    /\ window' = [called |-> TRUE, limit |-> scan.limit,
                  slice |-> SubSeq(messages, scan.start, Len(messages))]
    /\ UNCHANGED <<messages, outsideScan>>

NextScan == ScanEnter \/ ScanWiden \/ ScanReturn

InitWiden ==
    /\ InitScan
    /\ InitJobs /\ IdlePipe /\ IdleConc /\ IdleQueries
    /\ IdleTimes /\ IdleHours /\ IdleTool /\ IdleCalls

\* One call of getMessages, one pass of its loop at a time.
SpecScan == InitWiden /\ [][NextScan]_vars

\* The call is synchronous after its first await: it runs until it returns.
SpecScanFair == SpecScan /\ WF_vars(NextScan)

InitMemory ==
    /\ InitMem /\ InitJobs /\ IdlePipe /\ IdleConc /\ IdleQueries
    /\ IdleTimes /\ IdleHours /\ IdleTool /\ IdleScan /\ IdleCalls

SpecMem == InitMemory /\ [][NextMem]_vars

\* The memory module storing messages of every role and size.
SpecSizes == InitMemory /\ [][NextSizes]_vars

(***************************************************************************)
(*                 AGENT LOOP AND PIPELINE ORCHESTRATOR                    *)
(***************************************************************************)
HistoryWindow == 20
DEFAULT_MAX_RETRIES == 3
HOURS_LINK_LIMIT == 3

Min(a, b) == IF a <= b THEN a ELSE b

\* ---- what the model can answer -----------------------------------------
\* The content of an assistant message is described by how it parses:
\*   "record"    a JSON object that is a complete service record of the
\*               run's category
\*   "foreign"   a complete service record naming another category
\*   "object"    some other JSON object or array
\*   "scalar"    valid JSON that is no object (a number, a string, null)
\*   "wrapped"   prose or fences around a JSON object record
\*   "badbraces" text with a '{' before a '}' whose slice is not JSON
\*   "garbage"   text that is not JSON and has no '{' before a '}'
ContentKinds ==
    {"record", "foreign", "object", "scalar", "wrapped", "badbraces", "garbage"}

\* JSON.parse(text): "throws", or the kind of value parsed.
JsonParse(text) ==
    CASE text = "record" -> "record"
      [] text = "foreign" -> "foreign"
      [] text = "object" -> "object"
      [] text = "scalar" -> "scalar"
      [] OTHER -> "throws"

\* first !== -1 && last !== -1 && last > first
hasBraceSlice(text) == text \in {"wrapped", "badbraces", "record", "foreign", "object"}

\* raw.slice(first, last + 1)
braceSlice(text) ==
    CASE text = "wrapped" -> "record"
      [] text = "record" -> "record"
      [] text = "foreign" -> "foreign"
      [] text = "object" -> "object"
      [] OTHER -> "garbage"

\* typeof parsed === 'object' && parsed (arrays included, null excluded)
isObjectValue(v) == v \in {"record", "foreign", "object"}

\* runAgent: the parsedOk flag computed for a content response.
parsedOk(text) ==
    IF JsonParse(text) # "throws" THEN TRUE
    ELSE hasBraceSlice(text) /\ JsonParse(braceSlice(text)) # "throws"

\* runAgent: if (!parsedOk && jsonRetryCount === 0)
shouldRepair_Always(ok, count) == ~ok

shouldRepair(ok, count) == ~ok /\ count = 0

RepairText == "repair"
PromptText == "prompt"

NoDoc == [kind |-> "null", hours |-> FALSE]
AgentDocOf(v) == [kind |-> v, hours |-> FALSE]

\* parseAgentOutput(history): the document, or NoDoc for null.
parseAgentOutput(history) ==
    LET withContent == {i \in DOMAIN history :
                           history[i].role = "assistant" /\ history[i].text # ""}
    IN  IF withContent = {} THEN NoDoc
        ELSE LET last == CHOOSE i \in withContent : \A j \in withContent : j <= i
                 raw == history[last].text
             IN  IF JsonParse(raw) # "throws"
                 THEN IF isObjectValue(JsonParse(raw))
                      THEN AgentDocOf(JsonParse(raw)) ELSE NoDoc
                 ELSE IF hasBraceSlice(raw)
                         /\ JsonParse(braceSlice(raw)) # "throws"
                         /\ isObjectValue(JsonParse(braceSlice(raw)))
                      THEN AgentDocOf(JsonParse(braceSlice(raw)))
                      ELSE NoDoc

\* main: if (agentDoc)
agentPathSucceeded_Always(doc) == TRUE

agentPathSucceeded(doc) == doc # NoDoc

\* ---- search ------------------------------------------------------------
\* URLs of search results: "a", "b", "c" are http(s) URLs, "ftp" is not.
isHttpUrl(u) == u # "ftp"

\* The seen-set loop: every element once, at its first position.
RECURSIVE firstSeen(_, _)
firstSeen(seq, seen) ==
    IF seq = <<>> THEN <<>>
    ELSE IF Head(seq) \in seen THEN firstSeen(Tail(seq), seen)
         ELSE <<Head(seq)>> \o firstSeen(Tail(seq), seen \cup {Head(seq)})

RECURSIVE keepHttp(_)
keepHttp(seq) ==
    IF seq = <<>> THEN <<>>
    ELSE IF isHttpUrl(Head(seq)) THEN <<Head(seq)>> \o keepHttp(Tail(seq))
         ELSE keepHttp(Tail(seq))

normalizeUrls(raw) == firstSeen(keepHttp(raw), {})

RECURSIVE concatUrls(_)
concatUrls(results) ==
    IF results = <<>> THEN <<>>
    ELSE Head(results).urls \o concatUrls(Tail(results))

\* The merge loop without its seen-set.
orderedUrls_Concat(results) == concatUrls(results)

\* main: the merge loop over searchResults.
orderedUrls(results) == firstSeen(concatUrls(results), {})

\* No truncation of the candidate list.
sliceUrls_All(us, maxUrls) == us

\* orderedUrls.slice(0, maxUrls)
sliceUrls(us, maxUrls) == SubSeq(us, 1, Min(Len(us), maxUrls))

RawResults == {<<>>, <<"a", "b">>, <<"b", "ftp", "c", "b">>}

\* What one fetch of braveSearch can bring: a parsed result list, a
\* retryable status (429, 5xx), another error status, or a body that is
\* not JSON.
SearchOutcomes ==
    {[kind |-> "ok", raw |-> r] : r \in RawResults}
    \cup {[kind |-> k, raw |-> <<>>] : k \in {"retryable", "fatal", "badjson"}}

\* ---- rendered pages ----------------------------------------------------
\* What scraper.handler can bring on the fallback path: a payload (kind
\* "ok", with an HTTP status that is a success or not, with or without
\* hours, with ncand candidate links), the error object of the handler's
\* catch block (kind "navError"), or an exception thrown before the
\* handler's try block (kind "throws": the browser could not be launched).
RenderOutcomes ==
    {[kind |-> "ok", httpOk |-> h, hours |-> TRUE, ncand |-> 0] : h \in BOOLEAN}
    \cup {[kind |-> "ok", httpOk |-> h, hours |-> FALSE, ncand |-> n] :
             h \in BOOLEAN, n \in {0, 1, HOURS_LINK_LIMIT + 1}}
    \cup {[kind |-> "navError", httpOk |-> FALSE, hours |-> FALSE, ncand |-> 0],
          [kind |-> "throws", httpOk |-> FALSE, hours |-> FALSE, ncand |-> 0]}

\* extractHoursFromScraped(parsed): whether any hours are found.
extractHoursFromScraped(pg) == pg.kind = "ok" /\ pg.hours

\* getHoursCandidateLinks(parsed, baseUrl).slice(0, HOURS_LINK_LIMIT): how
\* many links are probed.
candidateCount(pg) == IF pg.kind = "ok" THEN Min(pg.ncand, HOURS_LINK_LIMIT) ELSE 0

\* buildSanityDoc(parsed, category, url, hours): "shell" is the record with
\* no field taken from a page, "page" a record built from a payload.
buildSanityDoc(pg, hours) ==
    [kind |-> IF pg.kind = "ok" THEN "page" ELSE "shell", hours |-> hours]

\* The keys of a service record, nested keys by their paths.
RecordKeys ==
    {"name", "description", "address", "location", "serviceTypes",
     "hoursOfOperation.periods", "hoursOfOperation.weekdayText",
     "contact.phone", "contact.email", "contact.website"}

\* The category argument of the run.
Category == "FOOD_BANK"

\* The keys a record of the sanity array has.  buildSanityDoc writes every
\* key of its literal; a record of the agent path is the parsed value as the
\* model wrote it.
docKeys(doc) ==
    CASE doc.kind \in {"page", "shell"} -> RecordKeys
      [] doc.kind \in {"record", "foreign"} -> RecordKeys
      [] OTHER -> {}

\* The category a record of the sanity array names: serviceTypes[0]._id,
\* "absent" when the record has no such key.
docCategory(doc) ==
    CASE doc.kind \in {"page", "shell"} -> Category
      [] doc.kind = "record" -> Category
      [] doc.kind = "foreign" -> "OTHER"
      [] OTHER -> "absent"

\* scraped.push({ url, result: parsed })
scrapedEntry(url, pg) == [url |-> url, error |-> pg.kind # "ok", httpOk |-> pg.httpOk]

InitPipe ==
    /\ pc = "start"
    /\ failure = "none"
    /\ searchResults = <<>>
    /\ attempt = 0
    /\ urlsToScrape = <<>>
    /\ ui = 0
    /\ jsonRetryCount = 0
    /\ turns = 0
    /\ pendingCalls = <<>>
    /\ agentHistory = <<>>
    /\ page = NoPage
    /\ probesLeft = 0
    /\ scraped = <<>>
    /\ extracted = <<>>
    /\ sanityDocs = <<>>
    /\ agentDocs = <<>>
    /\ directRenders = <<>>

\* main rejects: the exception of the named call escapes.
Reject(call) ==
    /\ pc' = "rejected"
    /\ failure' = call

\* The head of the per-URL loop for the i-th URL of us: resetMessages, then
\* runAgent up to its first model call; past the last URL the outputs are
\* written and main returns.
EnterUrl(us, i) ==
    /\ ui' = i
    /\ window' = NoWindow
    /\ agentHistory' = <<>>
    /\ page' = NoPage
    /\ probesLeft' = 0
    /\ pendingCalls' = <<>>
    /\ jsonRetryCount' = 0
    /\ turns' = 0
    /\ IF i <= Len(us)
       THEN /\ pc' = "agent"
            /\ messages' = addMessages(<<>>, <<UserMsg(PromptText)>>)
       ELSE /\ pc' = "done"
            /\ messages' = messages

\* const queries = await runQueryGenerator(city, state, category)
GenerateQueries(ok) ==
    /\ pc = "start"
    /\ IF ok
       THEN /\ pc' = "search"
            /\ UNCHANGED failure
       ELSE Reject("queries")
    /\ UNCHANGED <<searchResults, attempt, urlsToScrape, ui, jsonRetryCount, turns,
                   pendingCalls, agentHistory, page, probesLeft, scraped, extracted, sanityDocs,
                   agentDocs, directRenders, memVars>>
    /\ UNCHANGED outsidePipe

\* One fetch of braveSearch for the current query of runSearchAgent; after
\* the last query main merges and truncates the URL lists and enters the
\* per-URL loop.
SearchAttempt(outcome) ==
    /\ pc = "search"
    /\ outcome \in SearchOutcomes
    /\ LET qi == Len(searchResults) + 1
       IN  CASE outcome.kind = "ok" ->
                  LET results == Append(searchResults,
                                        [query |-> qi, urls |-> normalizeUrls(outcome.raw)])
                      us == sliceUrls(orderedUrls(results), MaxUrlsArg)
                  IN  /\ searchResults' = results
                      /\ attempt' = 0
                      /\ UNCHANGED failure
                      /\ IF qi = MaxQueries
                         THEN /\ urlsToScrape' = us
                              /\ EnterUrl(us, 1)
                         ELSE UNCHANGED <<pc, urlsToScrape, ui, jsonRetryCount, turns,
                                          pendingCalls, agentHistory, page, probesLeft,
                                          memVars>>
             [] outcome.kind = "retryable" /\ attempt < DEFAULT_MAX_RETRIES ->
                  /\ attempt' = attempt + 1
                  /\ UNCHANGED <<pc, failure, searchResults, urlsToScrape, ui,
                                 jsonRetryCount, turns, pendingCalls, agentHistory,
                                 page, probesLeft, memVars>>
             [] OTHER ->
                  /\ Reject("search")
                  /\ UNCHANGED <<searchResults, attempt, urlsToScrape, ui,
                                 jsonRetryCount, turns, pendingCalls, agentHistory,
                                 page, probesLeft, memVars>>
    /\ UNCHANGED <<scraped, extracted, sanityDocs, agentDocs, directRenders>>
    /\ UNCHANGED outsidePipe

\* What runLLM can bring: an exception, a tool call, neither content nor a
\* tool call, or content.
LlmResponses ==
    {[kind |-> "throws", text |-> ""], [kind |-> "tool", text |-> ""],
     [kind |-> "empty", text |-> ""]}
    \cup {[kind |-> "content", text |-> t] : t \in ContentKinds}

\* One pass of runAgent's loop up to the next await of a collaborator:
\* getMessages(20), runLLM, addMessages(assistantMessage), and then either
\* the tool branch (left to ToolStep), the repair turn, or the return.
AgentTurn(resp) ==
    /\ pc = "agent"
    /\ resp \in LlmResponses
    /\ turns < MaxTurns
    /\ LET history == getMessages(messages, <<HistoryWindow>>)
           calls == IF resp.kind = "tool" THEN {turns + 1} ELSE {}
           appended == addMessages(messages, <<AssistantMsg(calls, resp.text)>>)
       IN  /\ window' = [called |-> TRUE, limit |-> <<HistoryWindow>>, slice |-> history]
           /\ CASE resp.kind = "throws" ->
                     /\ Reject("completion")
                     /\ UNCHANGED <<messages, turns, pendingCalls, jsonRetryCount,
                                    agentHistory>>
                [] resp.kind = "tool" ->
                     /\ messages' = appended
                     /\ turns' = turns + 1
                     /\ pendingCalls' = <<turns + 1>>
                     /\ pc' = "tool"
                     /\ UNCHANGED <<failure, jsonRetryCount, agentHistory>>
                [] resp.kind = "empty" ->
                     /\ messages' = appended
                     /\ turns' = turns + 1
                     /\ UNCHANGED <<pc, failure, pendingCalls, jsonRetryCount, agentHistory>>
                [] resp.kind = "content" ->
                     /\ turns' = turns + 1
                     /\ IF shouldRepair(parsedOk(resp.text), jsonRetryCount)
                        THEN /\ jsonRetryCount' = jsonRetryCount + 1
                             /\ messages' = addMessages(appended, <<UserMsg(RepairText)>>)
                             /\ UNCHANGED <<pc, agentHistory>>
                        ELSE /\ messages' = appended
                             /\ agentHistory' = getMessages(appended, <<HistoryWindow>>)
                             /\ pc' = "returned"
                             /\ UNCHANGED jsonRetryCount
                     /\ UNCHANGED <<failure, pendingCalls>>
    /\ UNCHANGED <<searchResults, attempt, urlsToScrape, ui, page, probesLeft, scraped,
                   extracted, sanityDocs, agentDocs, directRenders>>
    /\ UNCHANGED outsidePipe

ToolOutcomes == {"ok", "error", "throws"}

\* runTool for the next tool call of the assistant message, and the
\* addMessages of its result.
ToolStep(outcome) ==
    /\ pc = "tool"
    /\ outcome \in ToolOutcomes
    /\ IF outcome = "throws"
       THEN /\ Reject("render")
            /\ UNCHANGED <<messages, pendingCalls>>
       ELSE /\ messages' = addMessages(messages, <<ToolMsg(Head(pendingCalls), 1)>>)
            /\ pendingCalls' = Tail(pendingCalls)
            /\ pc' = IF Tail(pendingCalls) = <<>> THEN "agent" ELSE "tool"
            /\ UNCHANGED failure
    /\ UNCHANGED <<window, searchResults, attempt, urlsToScrape, ui, jsonRetryCount,
                   turns, agentHistory, page, probesLeft, scraped, extracted, sanityDocs,
                   agentDocs, directRenders>>
    /\ UNCHANGED outsidePipe

\* The loop body after a URL's record is known: both pushes, then the head
\* of the loop for the next URL.
FinishUrl(method, doc, agentDoc) ==
    /\ sanityDocs' = Append(sanityDocs, doc)
    /\ extracted' = Append(extracted, [url |-> urlsToScrape[ui], method |-> method,
                                       doc |-> doc])
    /\ agentDocs' = Append(agentDocs, agentDoc)
    /\ EnterUrl(urlsToScrape, ui + 1)
    /\ UNCHANGED <<failure, searchResults, attempt, urlsToScrape>>

\* main: runAgent returned and parseAgentOutput gave a document.
AgentAccepted ==
    /\ pc = "returned"
    /\ agentPathSucceeded(parseAgentOutput(agentHistory))
    /\ FinishUrl("agent", parseAgentOutput(agentHistory), parseAgentOutput(agentHistory))
    /\ UNCHANGED <<scraped, directRenders>>
    /\ UNCHANGED outsidePipe

\* main: the agent path failed; scraper.handler is called for the URL.
FallbackRender(pg) ==
    /\ pc = "returned"
    /\ ~agentPathSucceeded(parseAgentOutput(agentHistory))
    /\ pg \in RenderOutcomes
    /\ directRenders' = Append(directRenders, urlsToScrape[ui])
    /\ IF pg.kind = "throws"
       THEN /\ Reject("render")
            /\ UNCHANGED <<searchResults, attempt, urlsToScrape, ui, jsonRetryCount,
                           turns, pendingCalls, agentHistory, page, probesLeft,
                           scraped, extracted, sanityDocs, agentDocs, memVars>>
       ELSE /\ scraped' = Append(scraped, scrapedEntry(urlsToScrape[ui], pg))
            /\ IF ~extractHoursFromScraped(pg) /\ candidateCount(pg) > 0
               THEN /\ pc' = "probe"
                    /\ page' = pg
                    /\ probesLeft' = candidateCount(pg)
                    /\ UNCHANGED <<failure, searchResults, attempt, urlsToScrape, ui,
                                   jsonRetryCount, turns, pendingCalls, agentHistory,
                                   extracted, sanityDocs, agentDocs, memVars>>
               ELSE FinishUrl("fallback",
                              buildSanityDoc(pg, extractHoursFromScraped(pg)),
                              parseAgentOutput(agentHistory))
    /\ UNCHANGED outsidePipe

ProbeOutcomes == {"hours", "nohours", "throws"}

\* main: scraper.handler for the next candidate link.
ProbeStep(outcome) ==
    /\ pc = "probe"
    /\ outcome \in ProbeOutcomes
    /\ CASE outcome = "throws" ->
              /\ Reject("render")
              /\ UNCHANGED <<searchResults, attempt, urlsToScrape, ui, jsonRetryCount,
                             turns, pendingCalls, agentHistory, page, probesLeft,
                             extracted, sanityDocs, agentDocs, memVars>>
         [] outcome = "hours" ->
              FinishUrl("fallback", buildSanityDoc(page, TRUE),
                        parseAgentOutput(agentHistory))
         [] outcome = "nohours" /\ probesLeft > 1 ->
              /\ probesLeft' = probesLeft - 1
              /\ UNCHANGED <<pc, failure, searchResults, attempt, urlsToScrape, ui,
                             jsonRetryCount, turns, pendingCalls, agentHistory, page,
                             extracted, sanityDocs, agentDocs, memVars>>
         [] OTHER ->
              FinishUrl("fallback", buildSanityDoc(page, FALSE),
                        parseAgentOutput(agentHistory))
    /\ UNCHANGED <<scraped, directRenders>>
    /\ UNCHANGED outsidePipe

NextPipe ==
    \/ \E ok \in BOOLEAN : GenerateQueries(ok)
    \/ \E outcome \in SearchOutcomes : SearchAttempt(outcome)
    \/ \E resp \in LlmResponses : AgentTurn(resp)
    \/ \E outcome \in ToolOutcomes : ToolStep(outcome)
    \/ AgentAccepted
    \/ \E pg \in RenderOutcomes : FallbackRender(pg)
    \/ \E outcome \in ProbeOutcomes : ProbeStep(outcome)

\* One run of the orchestrator, outside the server.
InitRun ==
    /\ InitPipe /\ InitJobs /\ IdleMem /\ IdleConc /\ IdleQueries
    /\ IdleTimes /\ IdleHours /\ IdleTool /\ IdleScan /\ IdleCalls

SpecPipe == InitRun /\ [][NextPipe]_vars

(***************************************************************************)
(*                     THE AGENT LOOP ON ITS OWN                           *)
(***************************************************************************)
\* Calls of runAgent one after another on a transcript that starts empty,
\* followed for up to MaxRounds model turns in all (a later call begins
\* within those turns); an assistant message may carry one or two tool calls.
MaxRounds == 6

\* The ids of the tool calls of the assistant message of a turn, in the
\* order of its tool_calls array: ids grow along the array and from turn to
\* turn.
toolCallIds(turn, n) == [k \in 1..n |-> 2 * (turn - 1) + k]

\* What runLLM can bring in this specification: an exception, an assistant
\* message with one or two tool calls, neither content nor a tool call,
\* content that parses and content that does not.
AgentResponses ==
    {[kind |-> "throws", ncalls |-> 0, text |-> ""],
     [kind |-> "tool", ncalls |-> 1, text |-> ""],
     [kind |-> "tool", ncalls |-> 2, text |-> ""],
     [kind |-> "empty", ncalls |-> 0, text |-> ""],
     [kind |-> "content", ncalls |-> 0, text |-> "record"],
     [kind |-> "content", ncalls |-> 0, text |-> "garbage"]}

\* A tool message that does not carry the id of its tool call.
toolResultMessage_NoId(toolCallId) == ToolMsg(0, 1)

\* { role: 'tool', tool_call_id: toolCall.id, content: toolResponse }
toolResultMessage(toolCallId) == ToolMsg(toolCallId, 1)

\* runAgent is called, on the empty transcript or on the transcript an
\* earlier call returned from: addMessages([{ role: 'user', content:
\* userMessage }]) and a fresh jsonRetryCount.
AgentStart ==
    /\ \/ pc = "idle" /\ messages = <<>>
       \/ pc = "returned" /\ turns < MaxRounds
    /\ messages' = addMessages(messages, <<UserMsg(PromptText)>>)
    /\ jsonRetryCount' = 0
    /\ agentHistory' = <<>>
    /\ pc' = "agent"
    /\ UNCHANGED <<window, failure, turns, pendingCalls>>
    /\ UNCHANGED outsideAgent

\* One pass of the while (true) loop up to the next await of a tool or the
\* return: getMessages(20), runLLM, addMessages([assistantMessage]), and the
\* branch taken.
AgentRound(resp) ==
    /\ pc = "agent"
    /\ resp \in AgentResponses
    /\ LET history == getMessages(messages, <<HistoryWindow>>)
           ids == toolCallIds(turns + 1, resp.ncalls)
           appended == addMessages(messages, <<AssistantMsg({ids[k] : k \in DOMAIN ids}, resp.text)>>)
       IN  /\ window' = [called |-> TRUE, limit |-> <<HistoryWindow>>, slice |-> history]
           /\ CASE resp.kind = "throws" ->
                     /\ Reject("completion")
                     /\ UNCHANGED <<messages, turns, pendingCalls, jsonRetryCount,
                                    agentHistory>>
                [] resp.kind = "tool" ->
                     /\ messages' = appended
                     /\ turns' = turns + 1
                     /\ pendingCalls' = ids
                     /\ pc' = "tool"
                     /\ UNCHANGED <<failure, jsonRetryCount, agentHistory>>
                [] resp.kind = "empty" ->
                     /\ messages' = appended
                     /\ turns' = turns + 1
                     /\ UNCHANGED <<pc, failure, pendingCalls, jsonRetryCount, agentHistory>>
                [] resp.kind = "content" ->
                     /\ turns' = turns + 1
                     /\ IF shouldRepair(parsedOk(resp.text), jsonRetryCount)
                        THEN /\ jsonRetryCount' = jsonRetryCount + 1
                             /\ messages' = addMessages(appended, <<UserMsg(RepairText)>>)
                             /\ UNCHANGED <<pc, agentHistory>>
                        ELSE /\ messages' = appended
                             /\ agentHistory' = getMessages(appended, <<HistoryWindow>>)
                             /\ pc' = "returned"
                             /\ UNCHANGED jsonRetryCount
                     /\ UNCHANGED <<failure, pendingCalls>>
    /\ UNCHANGED outsideAgent

\* runTool for the next tool call of the for loop, and the addMessages of
\* its result; a rejection of runTool ends runAgent.
AgentTool(outcome) ==
    /\ pc = "tool"
    /\ outcome \in {"resolved", "rejected"}
    /\ IF outcome = "rejected"
       THEN /\ Reject("render")
            /\ UNCHANGED <<messages, pendingCalls>>
       ELSE /\ messages' = addMessages(messages, <<toolResultMessage(Head(pendingCalls))>>)
            /\ pendingCalls' = Tail(pendingCalls)
            /\ pc' = IF Tail(pendingCalls) = <<>> THEN "agent" ELSE "tool"
            /\ UNCHANGED failure
    /\ UNCHANGED <<window, jsonRetryCount, turns, agentHistory>>
    /\ UNCHANGED outsideAgent

NextAgent ==
    \/ AgentStart
    \/ \E resp \in AgentResponses : turns < MaxRounds /\ AgentRound(resp)
    \/ \E outcome \in {"resolved", "rejected"} : AgentTool(outcome)

InitAgent ==
    /\ IdlePipe /\ IdleMem
    /\ InitJobs /\ IdleConc /\ IdleQueries
    /\ IdleTimes /\ IdleHours /\ IdleTool /\ IdleScan /\ IdleCalls

SpecAgent == InitAgent /\ [][NextAgent]_vars

\* The same loop followed until the transcript is longer than the window of
\* HistoryWindow messages: the model keeps asking for tools, one or two a
\* turn, or ends the call with content that parses.
MaxHistory == 24

LongRunResponses ==
    {resp \in AgentResponses :
        resp.kind = "tool" \/ (resp.kind = "content" /\ resp.text = "record")}

NextHistory ==
    \/ AgentStart
    \/ \E resp \in LongRunResponses : Len(messages) < MaxHistory /\ AgentRound(resp)
    \/ AgentTool("resolved")

InitHistory ==
    /\ IdlePipe /\ IdleMem
    /\ InitJobs /\ IdleConc /\ IdleQueries
    /\ IdleTimes /\ IdleHours /\ IdleTool /\ IdleScan /\ IdleCalls

SpecHistory == InitHistory /\ [][NextHistory]_vars

(***************************************************************************)
(*                          SEARCH WITH RETRIES                            *)
(***************************************************************************)
\* braveSearch(query, count, options) for one query, one fetch at a time.
MaxRetriesArg == 4

DEFAULT_DELAY_MS == 1100

\* options?.maxRetries and options?.retryDelayMs: <<>> when not given.
RetryOptions == {<<>>} \cup {<<n>> : n \in (0 - 1)..MaxRetriesArg}
DelayOptions == {<<>>, <<0>>, <<1>>, <<2>>}

\* value ?? preset
orDefault(value, preset) == IF value = <<>> THEN preset ELSE value[1]

\* What one fetch brings: a response with its status and whether its body
\* is JSON, or a rejection of fetch itself (status 0).
SearchResponses ==
    {[status |-> 200, json |-> TRUE], [status |-> 200, json |-> FALSE],
     [status |-> 429, json |-> FALSE], [status |-> 500, json |-> FALSE],
     [status |-> 503, json |-> FALSE], [status |-> 404, json |-> FALSE],
     [status |-> 400, json |-> FALSE], [status |-> 0, json |-> FALSE]}

\* response.ok
responseOk(status) == status >= 200 /\ status <= 299

\* A braveSearch that retries after every failed response.
shouldRetry_Always(status) == TRUE

\* const shouldRetry = response.status === 429 || response.status >= 500
shouldRetry(status) == status = 429 \/ status >= 500

\* const delay = retryDelayMs * (attempt + 1)
retryDelay(retryDelayMs, attemptNo) == retryDelayMs * (attemptNo + 1)

\* braveSearch is called with some options.
InitSearchCall ==
    \E r \in RetryOptions, d \in DelayOptions :
        search = [pc |-> "loop", maxRetries |-> orDefault(r, DEFAULT_MAX_RETRIES),
                  retryDelayMs |-> orDefault(d, DEFAULT_DELAY_MS), attempt |-> 0,
                  requests |-> 0, waits |-> <<>>, statuses |-> <<>>]

\* One pass of the for loop up to its return, its throw or its setTimeout.
SearchRequest(resp) ==
    /\ search.pc = "loop"
    /\ search.attempt <= search.maxRetries
    /\ resp \in SearchResponses
    /\ LET sent == [search EXCEPT !.requests = @ + 1,
                                  !.statuses = Append(@, resp.status)]
       IN  search' =
              CASE resp.status = 0 -> [sent EXCEPT !.pc = "thrown"]
                [] responseOk(resp.status) ->
                     [sent EXCEPT !.pc = IF resp.json THEN "returned" ELSE "thrown"]
                [] ~shouldRetry(resp.status) \/ search.attempt = search.maxRetries ->
                     [sent EXCEPT !.pc = "thrown"]
                [] OTHER ->
                     [sent EXCEPT !.pc = "waiting",
                                  !.waits = Append(@, retryDelay(search.retryDelayMs,
                                                                 search.attempt))]
    /\ UNCHANGED outsideSearch

\* The timer of the retry fires: attempt += 1 and the loop goes on.
SearchDelayElapsed ==
    /\ search.pc = "waiting"
    /\ search' = [search EXCEPT !.pc = "loop", !.attempt = @ + 1]
    /\ UNCHANGED outsideSearch

\* The loop ends without a request left to make: return [].
SearchLoopExit ==
    /\ search.pc = "loop"
    /\ search.attempt > search.maxRetries
    /\ search' = [search EXCEPT !.pc = "returned"]
    /\ UNCHANGED outsideSearch

NextSearch ==
    \/ \E resp \in SearchResponses : SearchRequest(resp)
    \/ SearchDelayElapsed
    \/ SearchLoopExit

InitSearch ==
    /\ InitSearchCall
    /\ InitJobs /\ IdleMem /\ IdlePipe /\ IdleConc /\ IdleQueries
    /\ IdleTimes /\ IdleHours /\ IdleTool /\ IdleScan /\ IdleFlight /\ IdleLinks
    /\ IdleFallback /\ IdleUrlLoop

SpecSearch == InitSearch /\ [][NextSearch]_vars

\* Every fetch settles and every timer fires.
SpecSearchFair == SpecSearch /\ WF_vars(NextSearch)

(***************************************************************************)
(*              THE CALLS OF ONE RUN, ONE AFTER ANOTHER                    *)
(***************************************************************************)
\* runSearchAgent over the queries of a run and main's loop over the URLs,
\* with the calls that are in flight and a log of what was issued, resolved
\* and appended.
MaxFlightQueries == 3

\* The query lists of a run: query k is the string "q" k.
FlightQueries == {[k \in 1..n |-> k] : n \in 1..MaxFlightQueries}

\* How braveSearch settles for a query: it resolves to a URL list, or it
\* throws.
FlightSearchOutcomes ==
    {[kind |-> "ok", urls |-> us] : us \in {<<>>, <<"a">>, <<"b", "a">>}}
    \cup {[kind |-> "throws", urls |-> <<>>]}

\* options?.delayMs: <<>> when not given.
FlightDelayOptions == {<<>>, <<0>>}

\* A runSearchAgent that starts the next search without the delay.
waitsBetweenQueries_Never(delayMs, i, n) == FALSE

\* if (delayMs > 0 && i < queries.length - 1), for the i-th query of n
\* counted from 1.
waitsBetweenQueries(delayMs, i, n) == delayMs > 0 /\ i < n

Logged(kind, index) == <<kind, index>>

\* main has the queries and calls runSearchAgent.
InitFlightRun ==
    \E qs \in FlightQueries, d \in FlightDelayOptions :
        flight = [pc |-> "search", queries |-> qs,
                  delayMs |-> orDefault(d, DEFAULT_DELAY_MS), urls |-> <<>>,
                  inFlight |-> {}, results |-> <<>>, records |-> <<>>, log |-> <<>>]

\* const urls = await braveSearch(query, ...) is entered for the next query.
FlightSearchIssued ==
    /\ flight.pc = "search"
    /\ LET i == Len(flight.results) + 1
       IN  flight' = [flight EXCEPT !.pc = "searching",
                                    !.inFlight = @ \cup {Logged("search", i)},
                                    !.log = Append(@, Logged("issued", i))]
    /\ UNCHANGED outsideFlight

\* braveSearch settles: results.push({ query, urls }) and the delay is
\* started, or, after the last query, main merges the URLs and enters its
\* loop; a rejection ends the run.
FlightSearchSettled(outcome) ==
    /\ flight.pc = "searching"
    /\ outcome \in FlightSearchOutcomes
    /\ LET i == Len(flight.results) + 1
           n == Len(flight.queries)
           results == Append(flight.results,
                             [query |-> flight.queries[i], urls |-> outcome.urls])
           us == sliceUrls(orderedUrls(results), MaxUrlsArg)
       IN  flight' =
              IF outcome.kind = "throws"
              THEN [flight EXCEPT !.pc = "rejected", !.inFlight = {},
                                  !.log = Append(@, Logged("failed", i))]
              ELSE [flight EXCEPT
                      !.results = results,
                      !.inFlight = @ \ {Logged("search", i)},
                      !.log = Append(@, Logged("resolved", i)),
                      !.urls = IF i = n THEN us ELSE @,
                      !.pc = IF waitsBetweenQueries(flight.delayMs, i, n) THEN "delay"
                             ELSE IF i < n THEN "search"
                             ELSE IF us = <<>> THEN "done" ELSE "extract"]
    /\ UNCHANGED outsideFlight

\* The timer between two queries fires.
FlightDelayElapsed ==
    /\ flight.pc = "delay"
    /\ flight' = [flight EXCEPT !.pc = "search",
                                !.log = Append(@, Logged("delayed", Len(flight.results)))]
    /\ UNCHANGED outsideFlight

\* The body of main's loop is entered for the next URL: resetMessages and
\* runAgent are awaited, then the renders of the fallback path.
FlightExtractionStarted ==
    /\ flight.pc = "extract"
    /\ LET j == Len(flight.records) + 1
       IN  flight' = [flight EXCEPT !.pc = "extracting",
                                    !.inFlight = @ \cup {Logged("extract", j)},
                                    !.log = Append(@, Logged("started", j))]
    /\ UNCHANGED outsideFlight

\* The awaits of the body settle: extracted.push({ url, result, method }),
\* or a rejection ends the run.
FlightExtractionSettled(method) ==
    /\ flight.pc = "extracting"
    /\ method \in {"agent", "fallback", "throws"}
    /\ LET j == Len(flight.records) + 1
       IN  flight' =
              IF method = "throws"
              THEN [flight EXCEPT !.pc = "rejected", !.inFlight = {},
                                  !.log = Append(@, Logged("failed", j))]
              ELSE [flight EXCEPT
                      !.records = Append(@, [url |-> flight.urls[j], method |-> method]),
                      !.inFlight = @ \ {Logged("extract", j)},
                      !.log = Append(@, Logged("appended", j)),
                      !.pc = IF j < Len(flight.urls) THEN "extract" ELSE "done"]
    /\ UNCHANGED outsideFlight

NextFlight ==
    \/ FlightSearchIssued
    \/ \E outcome \in FlightSearchOutcomes : FlightSearchSettled(outcome)
    \/ FlightDelayElapsed
    \/ FlightExtractionStarted
    \/ \E method \in {"agent", "fallback", "throws"} : FlightExtractionSettled(method)

InitFlight ==
    /\ InitFlightRun
    /\ InitJobs /\ IdleMem /\ IdlePipe /\ IdleConc /\ IdleQueries
    /\ IdleTimes /\ IdleHours /\ IdleTool /\ IdleScan /\ IdleSearch /\ IdleLinks
    /\ IdleFallback /\ IdleUrlLoop

SpecFlight == InitFlight /\ [][NextFlight]_vars

(***************************************************************************)
(*                    THE FALLBACK PATH OF ONE URL                         *)
(***************************************************************************)
\* main's fallback for one URL: the render of the URL, the renders of its
\* candidate links, and the record that is pushed.  A page is rendered as 0,
\* its k-th ranked candidate link as k; ranked is the number of candidate
\* links the page has.
MaxCandidates == 4
MaxFallbackUrls == 2

\* What extractHoursFromScraped gives for a render: whether weekdayText and
\* periods hold anything, and the render they come from.
HoursFrom(render, weekdayText, periods) ==
    [from |-> render, weekdayText |-> weekdayText, periods |-> periods]

\* How scraper.handler settles: a payload with hours as described, the
\* error object (no hours, no links), or a rejection.
FallbackRenders ==
    {[kind |-> "ok", weekdayText |-> w, periods |-> p] : w, p \in BOOLEAN}
    \cup {[kind |-> "error", weekdayText |-> FALSE, periods |-> FALSE],
          [kind |-> "throws", weekdayText |-> FALSE, periods |-> FALSE]}

\* hours.weekdayText.length === 0 && hours.periods.length === 0
hoursMissing(hours) == ~hours.weekdayText /\ ~hours.periods

\* candidateHours.weekdayText.length || candidateHours.periods.length
hoursPresent(hours) == hours.weekdayText \/ hours.periods

\* Every ranked candidate link is kept.
probedCandidates_All(n) == [k \in 1..n |-> k]

\* getHoursCandidateLinks(parsed, baseUrl).slice(0, HOURS_LINK_LIMIT), for
\* a page with n ranked candidate links.
probedCandidates(n) == [k \in 1..Min(n, HOURS_LINK_LIMIT) |-> k]

\* main is about to render the URL itself.
InitFallbackUrl ==
    fallback = [pc |-> "render", first |-> <<>>, ranked |-> 0, candidates |-> <<>>,
                renders |-> <<>>, seen |-> <<>>, docs |-> <<>>]

\* await scraper.handler for the URL; then either the loop over the
\* candidates is entered or the record is pushed with the page's hours.
FallbackFirstRender(res, n) ==
    /\ fallback.pc = "render"
    /\ res \in FallbackRenders
    /\ n \in 0..MaxCandidates
    /\ res.kind = "error" => n = 0
    /\ LET hours == HoursFrom(0, res.weekdayText, res.periods)
           cands == IF hoursMissing(hours) THEN probedCandidates(n) ELSE <<>>
           rendered == [fallback EXCEPT !.renders = Append(@, 0), !.ranked = n]
       IN  fallback' =
              IF res.kind = "throws" THEN [rendered EXCEPT !.pc = "rejected"]
              ELSE IF cands # <<>>
                   THEN [rendered EXCEPT !.pc = "probe", !.first = <<hours>>,
                                         !.candidates = cands]
                   ELSE [rendered EXCEPT !.pc = "done", !.first = <<hours>>,
                                         !.docs = Append(@, hours)]
    /\ UNCHANGED outsideFallback

\* await scraper.handler for the next candidate; its hours are taken and
\* the loop left when it has any, and after the last candidate the record
\* is pushed with the hours held then.
FallbackProbe(res) ==
    /\ fallback.pc = "probe"
    /\ res \in FallbackRenders
    /\ LET k == fallback.candidates[Len(fallback.seen) + 1]
           candidateHours == HoursFrom(k, res.weekdayText, res.periods)
           rendered == [fallback EXCEPT !.renders = Append(@, k)]
       IN  fallback' =
              IF res.kind = "throws" THEN [rendered EXCEPT !.pc = "rejected"]
              ELSE IF hoursPresent(candidateHours)
                   THEN [rendered EXCEPT !.pc = "done",
                                         !.seen = Append(@, candidateHours),
                                         !.docs = Append(@, candidateHours)]
                   ELSE IF Len(fallback.seen) + 1 < Len(fallback.candidates)
                        THEN [rendered EXCEPT !.seen = Append(@, candidateHours)]
                        ELSE [rendered EXCEPT !.pc = "done",
                                              !.seen = Append(@, candidateHours),
                                              !.docs = Append(@, fallback.first[1])]
    /\ UNCHANGED outsideFallback

\* The loop over the URLs goes on to the next URL that takes the fallback.
FallbackNextUrl ==
    /\ fallback.pc = "done"
    /\ Len(fallback.docs) < MaxFallbackUrls
    /\ fallback' = [fallback EXCEPT !.pc = "render", !.first = <<>>, !.ranked = 0,
                                    !.candidates = <<>>, !.renders = <<>>,
                                    !.seen = <<>>]
    /\ UNCHANGED outsideFallback

NextFallback ==
    \/ FallbackNextUrl
    \/ \E res \in FallbackRenders, n \in 0..MaxCandidates : FallbackFirstRender(res, n)
    \/ \E res \in FallbackRenders : FallbackProbe(res)

InitFallback ==
    /\ InitFallbackUrl
    /\ InitJobs /\ IdleMem /\ IdlePipe /\ IdleConc /\ IdleQueries
    /\ IdleTimes /\ IdleHours /\ IdleTool /\ IdleScan
    /\ IdleSearch /\ IdleFlight /\ IdleLinks /\ IdleUrlLoop

SpecFallback == InitFallback /\ [][NextFallback]_vars

(***************************************************************************)
(*                   THE CANDIDATE LINKS OF A PAGE                         *)
(***************************************************************************)
\* getHoursCandidateLinks called on its own.  A URL string is described by
\* how it is spelled: an absolute URL with its host, its path as written
\* ("" when nothing follows the host) and its fragment, a relative
\* reference, the empty string, or a string new URL rejects.
MaxLinks == 3

UrlString(kind, host, path, frag) ==
    [kind |-> kind, host |-> host, path |-> path, frag |-> frag]

EmptyHref == UrlString("empty", "", "", "")
InvalidUrl == UrlString("invalid", "", "", "")

\* https://a.org, https://a.org/, https://a.org/hours, https://a.org/about,
\* https://b.org/hours, https://a.org/#main, /hours, "", "http://".
Hrefs ==
    {UrlString("abs", "a", "", ""), UrlString("abs", "a", "/", ""),
     UrlString("abs", "a", "/hours", ""), UrlString("abs", "a", "/about", ""),
     UrlString("abs", "b", "/hours", ""), UrlString("abs", "a", "/", "#main"),
     UrlString("rel", "", "/hours", ""), EmptyHref, InvalidUrl}

LinkTexts == {"", "Our Services"}

PageLinks == {[href |-> h, text |-> t] : h \in Hrefs, t \in LinkTexts}

BaseUrls ==
    {UrlString("abs", "a", "", ""), UrlString("abs", "a", "/", ""),
     UrlString("abs", "a", "/about", "")}

\* new URL(href, baseUrl): the parsed URL, its path normalised, or a throw
\* (kind "invalid") when the base or the reference does not parse.
newURL(href, baseUrl) ==
    IF baseUrl.kind # "abs" \/ href.kind \notin {"abs", "rel"} THEN InvalidUrl
    ELSE IF href.kind = "abs"
    THEN UrlString("abs", href.host, IF href.path = "" THEN "/" ELSE href.path, href.frag)
    ELSE UrlString("abs", baseUrl.host, href.path, href.frag)

\* new URL(baseUrl), null when it throws.
baseOf(baseUrl) == newURL(baseUrl, baseUrl)

\* The keywords in the order of the array, with their scores.
keywords ==
    <<[key |-> "hours", score |-> 100], [key |-> "ourservices", score |-> 95],
      [key |-> "services", score |-> 90], [key |-> "service", score |-> 85],
      [key |-> "programs", score |-> 80], [key |-> "program", score |-> 75],
      [key |-> "contact", score |-> 70], [key |-> "about", score |-> 60],
      [key |-> "locations", score |-> 55], [key |-> "location", score |-> 50]>>

\* link.text.lowerCased(), path.lowerCased()
lowerCased(str) ==
    CASE str = "Our Services" -> "our services"
      [] OTHER -> str

\* str.includes(key), for the strings of this model.
includes(str, key) ==
    \/ str = "/hours" /\ key = "hours"
    \/ str = "/about" /\ key = "about"
    \/ str = "our services" /\ key \in {"services", "service"}

RECURSIVE bestScore(_, _, _, _)
\* The loop over the keywords: score = Math.max(score, keyword.score).
bestScore(path, text, k, score) ==
    IF k > Len(keywords) THEN score
    ELSE bestScore(path, text, k + 1,
                   IF includes(path, keywords[k].key) \/ includes(text, keywords[k].key)
                   THEN Max(score, keywords[k].score) ELSE score)

linkScore(link, url) == bestScore(lowerCased(url.path), lowerCased(link.text), 1, 0)

\* url.href === baseUrl: the serialised URL against the string passed in.
isOwnUrl(url, baseUrl) == url = baseUrl

\* Whether the loop skips the link.
skipped(link, baseUrl, seenHrefs) ==
    LET url == newURL(link.href, baseUrl)
    IN  \/ link.href.kind = "empty"
        \/ url.kind = "invalid"
        \/ baseOf(baseUrl).kind = "abs" /\ url.host # baseOf(baseUrl).host
        \/ isOwnUrl(url, baseUrl)
        \/ url \in seenHrefs
        \/ linkScore(link, url) = 0

RECURSIVE candidatesOf(_, _, _)
\* The loop over the links, with the set seen.
candidatesOf(links, baseUrl, seenHrefs) ==
    IF links = <<>> THEN <<>>
    ELSE IF skipped(Head(links), baseUrl, seenHrefs)
         THEN candidatesOf(Tail(links), baseUrl, seenHrefs)
         ELSE LET url == newURL(Head(links).href, baseUrl)
              IN  <<[url |-> url, score |-> linkScore(Head(links), url)]>>
                  \o candidatesOf(Tail(links), baseUrl, seenHrefs \cup {url})

RECURSIVE sortByScore(_)
\* candidates.sort((a, b) => b.score - a.score); the sort is stable.
sortByScore(cands) ==
    IF cands = <<>> THEN <<>>
    ELSE LET top == CHOOSE i \in DOMAIN cands :
                       /\ \A j \in DOMAIN cands : cands[j].score <= cands[i].score
                       /\ \A j \in 1..(i - 1) : cands[j].score < cands[i].score
             rest == SubSeq(cands, 1, top - 1) \o SubSeq(cands, top + 1, Len(cands))
         IN  <<cands[top]>> \o sortByScore(rest)

getHoursCandidateLinks(links, baseUrl) == sortByScore(candidatesOf(links, baseUrl, {}))

RECURSIVE LinkListsUpTo(_)
LinkListsUpTo(n) ==
    IF n = 0 THEN {<<>>}
    ELSE LinkListsUpTo(n - 1)
         \cup {Append(l, x) : l \in {m \in LinkListsUpTo(n - 1) : Len(m) = n - 1},
                              x \in PageLinks}

\* The function is called with the links of a page and a base URL.
InitLinkCall ==
    \E links \in LinkListsUpTo(MaxLinks), baseUrl \in BaseUrls :
        linkCall = [pc |-> "called", page |-> links, base |-> <<baseUrl>>, links |-> <<>>]

LinksReturned ==
    /\ linkCall.pc = "called"
    /\ linkCall' = [linkCall EXCEPT
                      !.pc = "returned",
                      !.links = getHoursCandidateLinks(linkCall.page, linkCall.base[1])]
    /\ UNCHANGED outsideLinks

NextLinks == LinksReturned

InitLinks ==
    /\ InitLinkCall
    /\ InitJobs /\ IdleMem /\ IdlePipe /\ IdleConc /\ IdleQueries
    /\ IdleTimes /\ IdleHours /\ IdleTool /\ IdleScan
    /\ IdleSearch /\ IdleFlight /\ IdleFallback /\ IdleUrlLoop

SpecLinks == InitLinks /\ [][NextLinks]_vars

(***************************************************************************)
(*                            TOOL RUNNER                                  *)
(***************************************************************************)
MaxToolCalls == 2

\* tools: the registered tools, by the name in their definition.
RegisteredTools == {"scrape_website", "fetch_html", "echo"}

\* toolCall.function.name
ToolNames == RegisteredTools \cup {"missing"}

\* toolCall.function.arguments, by how it parses:
\*   "empty"     the empty string (falsy: no parse, args stays {})
\*   "object"    JSON text of an object
\*   "number"    JSON text of a number
\*   "null"      the JSON text null
\*   "malformed" text that is not JSON
ToolArguments == {"empty", "object", "number", "null", "malformed"}

ToolCalls == {[name |-> n, arguments |-> a] : n \in ToolNames, a \in ToolArguments}

\* args after lines 11-22: "throws" when JSON.parse throws.
parseArguments(arguments) ==
    CASE arguments = "empty" -> "object"
      [] arguments = "malformed" -> "throws"
      [] OTHER -> arguments

\* tools.find((t) => t.definition.function?.name === name)
findTool(name) == name \in RegisteredTools

Resolved(value) == [state |-> "resolved", value |-> value]
Rejected == [state |-> "rejected", value |-> "none"]

\* How impl.handler({ toolArgs, userMessage }) can settle.  Every handler
\* starts by reading a property of toolArgs, which throws a TypeError when
\* toolArgs is null; otherwise it returns a string (scrape_website), returns
\* an object (fetch_html, echo) or throws (the request failed, the browser
\* could not be launched).
HandlerOutcomes(args) ==
    IF args = "null" THEN {"throws"} ELSE {"string", "object", "throws"}

\* typeof out === 'string' ? out : JSON.stringify(out)
toolResult(out) ==
    CASE out = "string" -> Resolved("handler string")
      [] out = "object" -> Resolved("JSON of handler result")
      [] OTHER -> Rejected

\* runTool(toolCall, userMessage, tools) up to its await: the promise is
\* settled with an error string, or the handler has been invoked.
RunToolCall(call) ==
    /\ toolRun.pc \in {"idle", "settled"}
    /\ call \in ToolCalls
    /\ toolRun.calls < MaxToolCalls
    /\ LET args == parseArguments(call.arguments)
       IN  toolRun' =
              IF args = "throws"
              THEN [pc |-> "settled", call |-> call, invoked |-> FALSE,
                    settled |-> Resolved("Invalid tool argument JSON"),
                    calls |-> toolRun.calls + 1]
              ELSE IF ~findTool(call.name)
              THEN [pc |-> "settled", call |-> call, invoked |-> FALSE,
                    settled |-> Resolved("Unknown tool"),
                    calls |-> toolRun.calls + 1]
              ELSE [pc |-> "handler", call |-> call, invoked |-> TRUE,
                    settled |-> NoSettlement, calls |-> toolRun.calls + 1]
    /\ UNCHANGED outsideTool

\* The awaited handler settles and runTool with it.
HandlerSettles(out) ==
    /\ toolRun.pc = "handler"
    /\ out \in HandlerOutcomes(parseArguments(toolRun.call.arguments))
    /\ toolRun' = [toolRun EXCEPT !.pc = "settled", !.settled = toolResult(out)]
    /\ UNCHANGED outsideTool

NextTool ==
    \/ \E call \in ToolCalls : RunToolCall(call)
    \/ \E out \in {"string", "object", "throws"} : HandlerSettles(out)

InitTool ==
    /\ IdleTool
    /\ InitJobs /\ IdleMem /\ IdlePipe /\ IdleConc /\ IdleQueries
    /\ IdleTimes /\ IdleHours /\ IdleScan /\ IdleCalls

\* runTool called on its own, one call after the other.
SpecTool == InitTool /\ [][NextTool]_vars

(***************************************************************************)
(*                     HEURISTIC CONTENT EXTRACTOR                         *)
(***************************************************************************)
\* A string is the sequence of its characters.
DigitChars == <<"0", "1", "2", "3", "4", "5", "6", "7", "8", "9">>

isDigit(c) == \E d \in DOMAIN DigitChars : DigitChars[d] = c

\* The value of a digit character.
digitValue(c) == (CHOOSE d \in DOMAIN DigitChars : DigitChars[d] = c) - 1

\* toLowerCase on the letters the time strings use.
lowerChar(c) ==
    CASE c = "A" -> "a"
      [] c = "M" -> "m"
      [] c = "P" -> "p"
      [] OTHER -> c

toLowerCase(str) == [i \in DOMAIN str |-> lowerChar(str[i])]

RECURSIVE trimStart(_)
trimStart(str) ==
    IF str # <<>> /\ Head(str) = " " THEN trimStart(Tail(str)) ELSE str

RECURSIVE trimEnd(_)
trimEnd(str) ==
    IF str # <<>> /\ str[Len(str)] = " "
    THEN trimEnd(SubSeq(str, 1, Len(str) - 1))
    ELSE str

trim(str) == trimEnd(trimStart(str))

NoMatch == [matched |-> FALSE, hour |-> <<>>, minute |-> <<>>, meridiem |-> <<>>]

\* The rest of /^(\d{1,2})(?::(\d{2}))?\s*(am|pm)?$/ once the first group
\* has taken the first nd characters of raw.
matchAfterHour(raw, nd) ==
    LET rest == SubSeq(raw, nd + 1, Len(raw))
        hasMinute == /\ Len(rest) >= 3
                     /\ rest[1] = ":"
                     /\ isDigit(rest[2])
                     /\ isDigit(rest[3])
        minute == IF hasMinute THEN SubSeq(rest, 2, 3) ELSE <<>>
        tail == trimStart(IF hasMinute THEN SubSeq(rest, 4, Len(rest)) ELSE rest)
    IN  IF tail \in {<<>>, <<"a", "m">>, <<"p", "m">>}
        THEN [matched |-> TRUE, hour |-> SubSeq(raw, 1, nd), minute |-> minute,
              meridiem |-> tail]
        ELSE NoMatch

\* raw.match(/^(\d{1,2})(?::(\d{2}))?\s*(am|pm)?$/): the first group takes
\* two digits when it can and one digit otherwise.
matchTime(raw) ==
    LET two == Len(raw) >= 2 /\ isDigit(raw[1]) /\ isDigit(raw[2])
        one == Len(raw) >= 1 /\ isDigit(raw[1])
    IN  IF two /\ matchAfterHour(raw, 2).matched THEN matchAfterHour(raw, 2)
        ELSE IF one THEN matchAfterHour(raw, 1)
        ELSE NoMatch

\* Number.parseInt(digits, 10)
RECURSIVE parseInt(_)
parseInt(digits) ==
    IF digits = <<>> THEN 0
    ELSE 10 * parseInt(SubSeq(digits, 1, Len(digits) - 1)) + digitValue(digits[Len(digits)])

\* `${n}` for 0 <= n <= 999
numberChars(n) ==
    IF n < 10 THEN <<DigitChars[n + 1]>>
    ELSE IF n < 100 THEN <<DigitChars[(n \div 10) + 1], DigitChars[(n % 10) + 1]>>
    ELSE <<DigitChars[(n \div 100) + 1], DigitChars[((n \div 10) % 10) + 1],
           DigitChars[(n % 10) + 1]>>

\* str.padStart(2, '0')
padStart2(str) == IF Len(str) < 2 THEN <<"0">> \o str ELSE str

NullTime == [kind |-> "null", chars |-> <<>>]
TimeString(chars) == [kind |-> "string", chars |-> chars]

\* toPeriodTime(value): value is a string (isString, chars) or something
\* else.
toPeriodTime(isString, chars) ==
    IF ~isString THEN NullTime
    ELSE LET raw == toLowerCase(trim(chars))
             m == matchTime(raw)
         IN  IF ~m.matched THEN NullTime
             ELSE LET h0 == parseInt(m.hour)
                      h1 == IF m.meridiem = <<"p", "m">> /\ h0 < 12 THEN h0 + 12 ELSE h0
                      hour == IF m.meridiem = <<"a", "m">> /\ h1 = 12 THEN 0 ELSE h1
                      minute == IF m.minute # <<>> THEN m.minute ELSE <<"0", "0">>
                  IN  TimeString(padStart2(numberChars(hour)) \o minute)

\* The strings handed to toPeriodTime: an optional leading blank, an hour
\* part, an optional minute part, an optional blank and an optional
\* meridiem.
HourParts ==
    {<<>>, <<"9">>, <<"0", "9">>, <<"1", "2">>, <<"1", "7">>, <<"0", "9", "0", "0">>,
     <<"9", "0", "0">>}
MinuteParts == {<<>>, <<":", "0", "0">>, <<":", "3", "0">>, <<":", "5">>}
Blanks == {<<>>, <<" ">>}
MeridiemParts == {<<>>, <<"a", "m">>, <<"p", "m">>, <<"A", "M">>, <<"h">>}

TimeStrings ==
    {lead \o h \o m \o b \o mer :
        lead \in Blanks, h \in HourParts, m \in MinuteParts, b \in Blanks,
        mer \in MeridiemParts}

InitTimeCall ==
    \E isString \in BOOLEAN, chars \in TimeStrings :
        /\ ~isString => chars = <<>>
        /\ timeCall = [pc |-> "called", isString |-> isString, chars |-> chars,
                       result |-> [kind |-> "none", chars |-> <<>>]]

\* toPeriodTime returns.
NormalizeTime ==
    /\ timeCall.pc = "called"
    /\ timeCall' = [timeCall EXCEPT
                       !.pc = "returned",
                       !.result = toPeriodTime(timeCall.isString, timeCall.chars)]
    /\ UNCHANGED outsideTimes

NextTimes == NormalizeTime

InitTimes ==
    /\ InitTimeCall
    /\ InitJobs /\ IdleMem /\ IdlePipe /\ IdleConc /\ IdleQueries
    /\ IdleHours /\ IdleTool /\ IdleScan /\ IdleCalls

\* toPeriodTime on every string of TimeStrings and on a value that is no
\* string.
SpecTimes == InitTimes /\ [][NextTimes]_vars

\* ---- hours of a rendered page -------------------------------------------
\* Text lines are named by what the regular expressions of
\* extractHoursFromText and isNoisyLine find in them.
TextLines ==
    {"Hours", "Monday", "9am - 5pm", "Closed", "Monday 9am - 5pm",
     "Published March 2024", "var(--gap)"}

\* dayRegex.test(line)
hasDay(line) == line \in {"Monday", "Monday 9am - 5pm"}
\* timeRegex.test(line)
hasTime(line) == line \in {"9am - 5pm", "Monday 9am - 5pm"}
\* closedRegex.test(line) || appointmentRegex.test(line)
hasClosed(line) == line = "Closed"
\* /hours/i.test(line)
mentionsHours(line) == line = "Hours"
\* monthRegex.test(line) && /\b\d{4}\b/.test(line), or /published/i.test(line)
isDateOrByline(line) == line = "Published March 2024"
\* isNoisyLine(line)
isNoisyLine(line) == line = "var(--gap)"

\* cleanTextLines(text): the lines that are not noise.
RECURSIVE cleanTextLines(_)
cleanTextLines(text) ==
    IF text = <<>> THEN <<>>
    ELSE IF isNoisyLine(Head(text)) THEN cleanTextLines(Tail(text))
         ELSE <<Head(text)>> \o cleanTextLines(Tail(text))

\* The local variables of extractHoursFromText.  A string of the result is
\* the sequence of its parts; pendingDay is <<>> for null.
NoPending == <<>>

\* A scanner that starts from what the previous call left behind.
freshScan_Kept(left) == [left EXCEPT !.candidates = <<>>]

\* let grabNext = 0; let pendingDay = null; const candidates = [].  left is
\* what the previous call's locals held when it returned.
freshScan(left) == [grabNext |-> 0, pendingDay |-> NoPending, candidates |-> <<>>]

\* `${pendingDay}: ${normalized}`
joined(pending, line) == pending \o <<": ", line>>

\* The if / else-if chain run while grabNext > 0, and the decrement.
grabStep(st, line) ==
    LET next == [st EXCEPT !.grabNext = st.grabNext - 1]
    IN  CASE hasDay(line) /\ (hasTime(line) \/ hasClosed(line)) ->
                [next EXCEPT !.candidates = Append(@, <<line>>)]
          [] hasDay(line) /\ ~hasTime(line) ->
                [next EXCEPT !.pendingDay = <<line>>]
          [] hasTime(line) /\ st.pendingDay # NoPending ->
                [next EXCEPT !.candidates = Append(@, joined(st.pendingDay, line)),
                             !.pendingDay = NoPending]
          [] hasClosed(line) /\ st.pendingDay # NoPending ->
                [next EXCEPT !.candidates = Append(@, joined(st.pendingDay, line)),
                             !.pendingDay = NoPending]
          [] OTHER -> next

\* One pass of the for loop of extractHoursFromText.
scanLine(st, line) ==
    IF isDateOrByline(line) THEN st
    ELSE LET g == IF st.grabNext > 0 THEN grabStep(st, line) ELSE st
             h == IF mentionsHours(line) THEN [g EXCEPT !.grabNext = 4] ELSE g
         IN  CASE hasDay(line) /\ (hasTime(line) \/ hasClosed(line)) ->
                     [h EXCEPT !.candidates = Append(@, <<line>>),
                               !.pendingDay = NoPending]
               [] hasDay(line) /\ ~hasTime(line) ->
                     [h EXCEPT !.pendingDay = <<line>>]
               [] hasTime(line) /\ h.pendingDay # NoPending ->
                     [h EXCEPT !.candidates = Append(@, joined(h.pendingDay, line)),
                               !.pendingDay = NoPending]
               [] OTHER -> h

RECURSIVE scanLines(_, _)
scanLines(lines, st) ==
    IF lines = <<>> THEN st ELSE scanLines(Tail(lines), scanLine(st, Head(lines)))

\* dedupeStrings(values): empty strings dropped, every other string once, at
\* its first position.
dedupeStrings(values) ==
    firstSeen(SelectSeq(values, LAMBDA v : v # <<>>), {})

\* extractHoursFromText(text) run by a scanner that starts as st: the hours
\* and the scanner's locals on return.
extractHoursFromText(text, st) ==
    IF text = <<>> THEN [periods |-> <<>>, weekdayText |-> <<>>, left |-> st]
    ELSE LET end == scanLines(cleanTextLines(text), st)
         IN  [periods |-> <<>>, weekdayText |-> dedupeStrings(end.candidates),
              left |-> end]

\* normalizeDay(value): <<>> for null.
normalizeDay(value) ==
    CASE value = "Monday" -> <<[name |-> "Monday", day |-> 1]>>
      [] value = "tue" -> <<[name |-> "Tuesday", day |-> 2]>>
      [] value = "https://schema.org/Sunday" -> <<[name |-> "Sunday", day |-> 7]>>
      [] OTHER -> <<>>

\* formatTime(value)
formatTime(value) ==
    IF Len(value) = 4 /\ \A i \in 1..4 : isDigit(value[i])
    THEN SubSeq(value, 1, 2) \o <<":">> \o SubSeq(value, 3, 4)
    ELSE value

\* parseOpeningHoursSpecification(spec): spec.dayOfWeek is an array of
\* strings here.
RECURSIVE specDays(_, _, _)
specDays(days, openTime, closeTime) ==
    IF days = <<>> THEN [periods |-> <<>>, weekdayText |-> <<>>]
    ELSE LET rest == specDays(Tail(days), openTime, closeTime)
             normalized == normalizeDay(Head(days))
         IN  IF normalized = <<>> THEN rest
             ELSE [periods |->
                      <<[open |-> [day |-> normalized[1].day, time |-> openTime],
                         close |-> [day |-> normalized[1].day, time |-> closeTime]]>>
                      \o rest.periods,
                   weekdayText |->
                      <<<<normalized[1].name, ": ">> \o formatTime(openTime)
                          \o <<" - ">> \o formatTime(closeTime)>>
                      \o rest.weekdayText]

\* if (!openTime || !closeTime) return { periods, weekdayText }, else the
\* loop over the days.
specPeriods(days, openTime, closeTime) ==
    IF openTime = NullTime \/ closeTime = NullTime
    THEN [periods |-> <<>>, weekdayText |-> <<>>]
    ELSE specDays(days, openTime.chars, closeTime.chars)

parseOpeningHoursSpecification(spec) ==
    specPeriods(spec.dayOfWeek, toPeriodTime(TRUE, spec.opens),
                toPeriodTime(TRUE, spec.closes))

\* collectLdObjects(ld_json) for a flat array of objects: the stack is
\* popped from its end.
RECURSIVE collectLdObjects(_)
collectLdObjects(input) ==
    IF input = <<>> THEN <<>>
    ELSE <<input[Len(input)]>> \o collectLdObjects(SubSeq(input, 1, Len(input) - 1))

\* extractHoursFromLd(items), before the final dedupeStrings.
\* The pushes of one item (its openingHours strings, then what its
\* specification parses to), in front of those of the later items.
pushHours(openingHours, parsed, rest) ==
    [periods |-> parsed.periods \o rest.periods,
     weekdayText |-> openingHours \o parsed.weekdayText \o rest.weekdayText]

RECURSIVE hoursOfItems(_)
hoursOfItems(items) ==
    IF items = <<>> THEN [periods |-> <<>>, weekdayText |-> <<>>]
    ELSE pushHours(Head(items).openingHours,
                   IF Head(items).spec = <<>>
                   THEN [periods |-> <<>>, weekdayText |-> <<>>]
                   ELSE parseOpeningHoursSpecification(Head(items).spec[1]),
                   hoursOfItems(Tail(items)))

\* return { periods, weekdayText: dedupeStrings(weekdayText) }
dedupedHours(found) ==
    [periods |-> found.periods, weekdayText |-> dedupeStrings(found.weekdayText)]

extractHoursFromLd(items) == dedupedHours(hoursOfItems(items))

\* extractHoursFromScraped(scraped) in full, for a scraped value described
\* by its metadata.ld_json and the lines of its data.text, run by a scanner
\* that starts as st.  (The orchestrator's model above keeps only whether
\* the result is empty.)
\* if (fromLd.weekdayText.length || fromLd.periods.length) return fromLd;
\* return extractHoursFromText(scraped?.data?.text)
hoursFromLdOrText(fromLd, text, st) ==
    IF fromLd.weekdayText # <<>> \/ fromLd.periods # <<>>
    THEN [periods |-> fromLd.periods, weekdayText |-> fromLd.weekdayText, left |-> st]
    ELSE extractHoursFromText(text, st)

extractHoursFromPage(pg, st) ==
    hoursFromLdOrText(extractHoursFromLd(collectLdObjects(pg.ld)), pg.text, st)

\* ---- the pages hours are extracted from --------------------------------
MaxLines == 2
MaxExtractions == 3

\* An openingHours string, as its one part.
OpeningHoursText == <<"Mo-Fr 09:00-17:00">>

LdItem(openingHours, spec) == [openingHours |-> openingHours, spec |-> spec]
HoursSpec(days, opens, closes) == [dayOfWeek |-> days, opens |-> opens, closes |-> closes]

\* metadata.ld_json: absent, free-text openingHours (twice the same), a
\* specification with colon times, one with 4-digit times, both kinds of
\* item together, a Sunday with colon times, and a specification whose
\* times name no time of day.
LdCases ==
    {<<>>,
     <<LdItem(<<OpeningHoursText, OpeningHoursText>>, <<>>)>>,
     <<LdItem(<<>>, <<HoursSpec(<<"Monday", "tue", "Caturday">>,
                                <<"9", ":", "0", "0">>, <<"5", "p", "m">>)>>)>>,
     <<LdItem(<<>>, <<HoursSpec(<<"https://schema.org/Sunday">>,
                                <<"0", "9", "0", "0">>, <<"1", "7", "0", "0">>)>>)>>,
     <<LdItem(<<OpeningHoursText>>, <<>>),
       LdItem(<<>>, <<HoursSpec(<<"Monday">>, <<"1", "0">>, <<"1", "2", ":", "3", "0">>)>>)>>,
     <<LdItem(<<>>, <<HoursSpec(<<"https://schema.org/Sunday">>,
                                <<"9", ":", "0", "0">>, <<"1", "7", ":", "0", "0">>)>>)>>,
     <<LdItem(<<>>, <<HoursSpec(<<"Monday">>,
                                <<"2", "5", ":", "0", "0">>, <<"9", ":", "7", "5">>)>>)>>}

RECURSIVE TextsUpTo(_)
TextsUpTo(n) ==
    IF n = 0 THEN {<<>>}
    ELSE TextsUpTo(n - 1)
         \cup {Append(t, l) : t \in {u \in TextsUpTo(n - 1) : Len(u) = n - 1},
                              l \in TextLines}

ScrapedPages == {[ld |-> ld, text |-> text] : ld \in LdCases, text \in TextsUpTo(MaxLines)}

\* The pages extracted before and between the extractions of the picked
\* page: one ending on a line that mentions hours, one ending on a day line,
\* one whose hours come from structured data.
OtherPages ==
    {[ld |-> <<>>, text |-> <<"Monday 9am - 5pm", "Hours">>],
     [ld |-> <<>>, text |-> <<"Hours", "Monday">>],
     [ld |-> <<LdItem(<<OpeningHoursText>>, <<>>)>>, text |-> <<"Closed">>]}

NoHours == <<>>

HoursOf(r) == [periods |-> r.periods, weekdayText |-> r.weekdayText]

\* A page is picked to be extracted more than once; no call has been made.
InitHoursRun ==
    \E pg \in ScrapedPages :
        hoursRun = [pc |-> "running", target |-> pg, first |-> NoHours,
                    again |-> NoHours, calls |-> 0, prev |-> <<>>, before |-> <<>>,
                    left |-> NoScanner]

\* The record of a call that returned r for pg.  The result for the picked
\* page is kept: the first one, and the latest later one with the page that
\* was extracted just before it.
Extracted(kept, pg, r) ==
    [kept EXCEPT
        !.calls = @ + 1,
        !.left = r.left,
        !.prev = <<pg>>,
        !.before = IF pg = kept.target /\ kept.first # NoHours THEN kept.prev ELSE @,
        !.first = IF pg = kept.target /\ kept.first = NoHours THEN <<HoursOf(r)>> ELSE @,
        !.again = IF pg = kept.target /\ kept.first # NoHours THEN <<HoursOf(r)>> ELSE @]

\* extractHoursFromScraped(pg) is called and returns.
ExtractHours(pg) ==
    /\ hoursRun.pc = "running"
    /\ pg \in OtherPages \cup {hoursRun.target}
    /\ hoursRun.calls < MaxExtractions
    /\ hoursRun' = Extracted(hoursRun, pg,
                             extractHoursFromPage(pg, freshScan(hoursRun.left)))
    /\ UNCHANGED outsideHours

NextHours == \E pg \in OtherPages \cup {hoursRun.target} : ExtractHours(pg)

InitHours ==
    /\ InitHoursRun
    /\ InitJobs /\ IdleMem /\ IdlePipe /\ IdleConc /\ IdleQueries
    /\ IdleTimes /\ IdleTool /\ IdleScan /\ IdleCalls

\* extractHoursFromScraped called on pages in every order.
SpecHours == InitHours /\ [][NextHours]_vars

(***************************************************************************)
(*                          QUERY GENERATOR                                *)
(***************************************************************************)
RequiredQueries == 10

\* Strings.  A query string is the text of query k behind a decoration:
\* none, a bullet ("- "), a number with a dot ("3. ") or with a parenthesis
\* ("3) ").  The other strings are the lines a model output can hold
\* besides queries: a quoted array element with or without its comma, the
\* brackets and braces of pretty-printed JSON, a preamble, the fence lines.
Decorations == {"none", "bullet", "dot", "paren"}
Query(k, deco) == [kind |-> "query", k |-> k, deco |-> deco]
Other(kind) == [kind |-> kind, k |-> 0, deco |-> "none"]
EmptyString == Other("empty")
NumberItem == Other("number")

\* The line of pretty-printed JSON that holds the array element s.
quotedLine(s, last) ==
    IF s.kind = "number" THEN Other(IF last THEN "number" ELSE "numberComma")
    ELSE [kind |-> IF last THEN "quoted" ELSE "quotedComma", k |-> s.k, deco |-> s.deco]

\* sanitizeQuery(line): trim, then strip one bullet or numbering.
sanitizeQuery(line) ==
    IF line.kind = "query" THEN Query(line.k, "none") ELSE line

\* stripCodeFences(text): a text that is one fenced block loses the fence.
stripCodeFences(text) ==
    IF text.fence = "whole" THEN [text EXCEPT !.fence = "none"] ELSE text

\* JSON.parse(stripped): "throws", "array" or another JSON value.
jsonKind(stripped) ==
    IF stripped.fence = "none" /\ stripped.form \in {"array", "object"}
    THEN stripped.form ELSE "throws"

RECURSIVE quotedLines(_)
quotedLines(items) ==
    IF items = <<>> THEN <<>>
    ELSE <<quotedLine(Head(items), Len(items) = 1)>> \o quotedLines(Tail(items))

\* stripped.split('\n')
splitLines(stripped) ==
    LET body == CASE stripped.form = "lines" -> stripped.items
                  [] stripped.form = "array" ->
                        <<Other("[")>> \o quotedLines(stripped.items) \o <<Other("]")>>
                  [] stripped.form = "object" ->
                        <<Other("{"), Other("key[")>> \o quotedLines(stripped.items)
                           \o <<Other("]"), Other("}")>>
    IN  IF stripped.fence = "none" THEN body
        ELSE <<Other("preamble"), Other("fenceOpen")>> \o body \o <<Other("fenceClose")>>

RECURSIVE sanitizeAll(_, _)
\* .filter(typeof q === 'string') when strings only, .map(sanitizeQuery),
\* .filter(q.length > 0)
sanitizeAll(items, stringsOnly) ==
    IF items = <<>> THEN <<>>
    ELSE LET q == sanitizeQuery(Head(items))
             rest == sanitizeAll(Tail(items), stringsOnly)
         IN  IF (stringsOnly /\ Head(items).kind = "number") \/ q = EmptyString
             THEN rest ELSE <<q>> \o rest

parseQueriesFromModelOutput(raw) ==
    LET stripped == stripCodeFences(raw)
    IN  IF jsonKind(stripped) = "array"
        THEN sanitizeAll(stripped.items, TRUE)
        ELSE sanitizeAll(splitLines(stripped), FALSE)

Thrown == [ok |-> FALSE, value |-> <<>>]
Returned(v) == [ok |-> TRUE, value |-> v]

RECURSIVE padTo(_, _, _)
padTo(unique, i, n) ==
    IF Len(unique) >= n THEN unique
    ELSE padTo(Append(unique, unique[(i % Len(unique)) + 1]), i + 1, n)

\* Clamp and pad instead of rejecting.
validateAndNormalizeQueries_Pad(queries) ==
    LET unique == firstSeen(queries, {EmptyString})
    IN  IF unique = <<>> THEN Returned(<<>>)
        ELSE Returned(SubSeq(padTo(unique, 0, RequiredQueries), 1, RequiredQueries))

validateAndNormalizeQueries(queries) ==
    LET unique == firstSeen(queries, {EmptyString})
    IN  IF Len(unique) # RequiredQueries THEN Thrown ELSE Returned(unique)

\* response.choices[0].message.content of one completion: nothing, or a
\* text; or the call of the API rejects.
ApiError == [fence |-> "none", form |-> "rejects", items |-> <<>>]

RECURSIVE queryItems(_, _)
queryItems(n, deco) ==
    IF n = 0 THEN <<>> ELSE Append(queryItems(n - 1, deco), Query(n, deco))

Extras ==
    {<<>>, <<Query(1, "none")>>, <<EmptyString>>, <<NumberItem>>,
     <<Query(2, "bullet"), EmptyString>>}

ModelOutputs ==
    {[fence |-> fence, form |-> form, items |-> queryItems(n, deco) \o extra] :
        fence \in {"none", "whole", "preamble"},
        form \in {"lines", "array", "object"},
        n \in {0, RequiredQueries - 1, RequiredQueries, RequiredQueries + 1},
        deco \in Decorations,
        extra \in Extras}

Completions == ModelOutputs \cup {NoText, ApiError}

\* attemptGenerate with the completion's content.
attemptGenerate(content) ==
    IF content = ApiError \/ content = NoText THEN Thrown
    ELSE validateAndNormalizeQueries(parseQueriesFromModelOutput(content))

InitQueries ==
    /\ IdleQueries /\ InitJobs /\ IdleMem /\ IdlePipe /\ IdleConc
    /\ IdleTimes /\ IdleHours /\ IdleTool /\ IdleScan /\ IdleCalls

\* How an attempt went: the API call rejected, the content was empty, or
\* a text was parsed and validated.
attemptSeen(content) ==
    [kind |-> IF content = ApiError THEN "rejects"
              ELSE IF content = NoText THEN "empty" ELSE "text",
     valid |-> attemptGenerate(content).ok]

\* runQueryGenerator: the first attempt.
FirstAttempt(content) ==
    /\ qgen.pc = "idle"
    /\ content \in Completions
    /\ qgen' = [pc |-> IF attemptGenerate(content).ok THEN "returned" ELSE "repair",
                output |-> content,
                result |-> attemptGenerate(content).value,
                calls |-> 1,
                first |-> <<attemptSeen(content)>>]
    /\ UNCHANGED outsideQueries

\* runQueryGenerator: the attempt with the repair instruction.
RepairAttempt(content) ==
    /\ qgen.pc = "repair"
    /\ content \in Completions
    /\ qgen' = [pc |-> IF attemptGenerate(content).ok THEN "returned" ELSE "threw",
                output |-> content,
                result |-> attemptGenerate(content).value,
                calls |-> qgen.calls + 1,
                first |-> qgen.first]
    /\ UNCHANGED outsideQueries

NextQueries ==
    \/ \E content \in Completions : FirstAttempt(content)
    \/ \E content \in Completions : RepairAttempt(content)

SpecQueries == InitQueries /\ [][NextQueries]_vars

(***************************************************************************)
(*          ORCHESTRATION TASKS OF SEVERAL JOBS ON ONE TRANSCRIPT          *)
(*                                                                         *)
(* The POST /jobs handler starts a job's task with `void startPipeline`    *)
(* and returns, so the tasks of two jobs interleave at their awaits.  The  *)
(* memory module keeps one transcript (one file, DB_PATH) and its calls    *)
(* take no job or conversation argument.                                   *)
(***************************************************************************)
Range(s) == {s[i] : i \in DOMAIN s}

\* A task is inside a conversation from its prompt to runAgent's return.
InConversation == {"window", "respond", "tool"}

\* The model's answers followed here: a tool call, a record, unparseable text.
ConcResponses ==
    {r \in LlmResponses :
        r.kind = "tool" \/ (r.kind = "content" /\ r.text \in {"record", "garbage"})}

\* The tool call id the model gives in a job's turn.
callId(id, turn) == 10 * id + turn

\* The owners of the window getMessages returns: it is a suffix of the
\* transcript.
ownersOf(slice) == SubSeq(owners, Len(owners) - Len(slice) + 1, Len(owners))

RECURSIVE repeat(_, _)
repeat(x, n) == IF n = 0 THEN <<>> ELSE <<x>> \o repeat(x, n - 1)

\* addMessages(batch) by the task of job id.
appendAs(id, batch) ==
    /\ messages' = addMessages(messages, batch)
    /\ owners' = owners \o repeat(id, Len(addMessages(messages, batch)) - Len(messages))

\* POST /jobs: startPipeline, runPipeline up to its first await.
StartRun(id) ==
    /\ run[id].pc = "absent"
    /\ run' = [run EXCEPT ![id] = [pc |-> "reset", left |-> MaxUrlsArg,
                                    turns |-> 0, retry |-> 0]]
    /\ UNCHANGED <<messages, window, owners, handed, wiped>>
    /\ UNCHANGED outsideConc

\* await resetMessages() at the head of the per-URL loop.
RunReset(id) ==
    /\ run[id].pc = "reset"
    /\ messages' = <<>>
    /\ owners' = <<>>
    /\ window' = NoWindow
    /\ wiped' = wiped \cup {o \in Range(owners) : o # id /\ run[o].pc \in InConversation}
    /\ run' = [run EXCEPT ![id].pc = "prompt", ![id].turns = 0, ![id].retry = 0]
    /\ UNCHANGED handed
    /\ UNCHANGED outsideConc

\* runAgent: await addMessages([{ role: 'user', content: userMessage }])
RunPrompt(id) ==
    /\ run[id].pc = "prompt"
    /\ Len(messages) < MaxTranscript
    /\ appendAs(id, <<UserMsg(PromptText)>>)
    /\ run' = [run EXCEPT ![id].pc = "window"]
    /\ UNCHANGED <<window, handed, wiped>>
    /\ UNCHANGED outsideConc

\* runAgent: const history = await getMessages(20), handed to runLLM.
RunWindow(id) ==
    /\ run[id].pc = "window"
    /\ run[id].turns < MaxTurns
    /\ LET history == getMessages(messages, <<HistoryWindow>>)
       IN  /\ window' = [called |-> TRUE, limit |-> <<HistoryWindow>>, slice |-> history]
           /\ handed' = [handed EXCEPT ![id] = ownersOf(history)]
    /\ run' = [run EXCEPT ![id].pc = "respond", ![id].turns = @ + 1]
    /\ UNCHANGED <<messages, owners, wiped>>
    /\ UNCHANGED outsideConc

\* The end of a URL's iteration: the next URL's reset, or the task is over.
nextUrl(r) ==
    IF r.left > 1 THEN [r EXCEPT !.pc = "reset", !.left = @ - 1]
    ELSE [r EXCEPT !.pc = "done", !.left = 0]

\* runAgent: runLLM resolves, the assistant message is appended, and then
\* the tool branch, the repair turn or the return.
RunRespond(id, resp) ==
    /\ run[id].pc = "respond"
    /\ resp \in ConcResponses
    /\ Len(messages) + 1 < MaxTranscript
    /\ IF resp.kind = "tool"
       THEN /\ appendAs(id, <<AssistantMsg({callId(id, run[id].turns)}, "")>>)
            /\ run' = [run EXCEPT ![id].pc = "tool"]
       ELSE IF shouldRepair(parsedOk(resp.text), run[id].retry)
       THEN /\ appendAs(id, <<AssistantMsg({}, resp.text), UserMsg(RepairText)>>)
            /\ run' = [run EXCEPT ![id].pc = "window", ![id].retry = @ + 1]
       ELSE /\ appendAs(id, <<AssistantMsg({}, resp.text)>>)
            /\ run' = [run EXCEPT ![id] = nextUrl(@)]
    /\ UNCHANGED <<window, handed, wiped>>
    /\ UNCHANGED outsideConc

\* runAgent: runTool resolves and its result is appended.
RunTool(id) ==
    /\ run[id].pc = "tool"
    /\ Len(messages) < MaxTranscript
    /\ appendAs(id, <<ToolMsg(callId(id, run[id].turns), 1)>>)
    /\ run' = [run EXCEPT ![id].pc = "window"]
    /\ UNCHANGED <<window, handed, wiped>>
    /\ UNCHANGED outsideConc

NextConc ==
    \/ \E id \in ConcurrentJobs : StartRun(id)
    \/ \E id \in ConcurrentJobs : RunReset(id)
    \/ \E id \in ConcurrentJobs : RunPrompt(id)
    \/ \E id \in ConcurrentJobs : RunWindow(id)
    \/ \E id \in ConcurrentJobs, resp \in ConcResponses : RunRespond(id, resp)
    \/ \E id \in ConcurrentJobs : RunTool(id)

InitConc ==
    /\ IdleConc /\ InitJobs /\ IdleMem /\ IdlePipe /\ IdleQueries
    /\ IdleTimes /\ IdleHours /\ IdleTool /\ IdleScan /\ IdleCalls

SpecConc == InitConc /\ [][NextConc]_vars

(***************************************************************************)
(*                 THE AGENT PATH, ONE URL AFTER ANOTHER                   *)
(*                                                                         *)
(* The entry points that run the agent for each URL of a list in one       *)
(* process: main of the pipeline script, which awaits resetMessages()      *)
(* before every runAgent, and main of scripts/batchExtract.ts, which       *)
(* calls runAgent in its loop and nothing else.  Each message of the       *)
(* transcript is followed with the URL whose iteration appended it.        *)
(***************************************************************************)
MaxBatchUrls == 2

EntryPoints == {"pipeline", "batchExtract"}

\* Only the pipeline script clears the transcript at the head of its loop.
clearsBeforeUrl(entry) == entry = "pipeline"

\* Where the iteration of a URL begins.
urlStart(entry) == IF clearsBeforeUrl(entry) THEN "reset" ELSE "prompt"

\* The URLs of the messages a window holds: the window is a suffix of the
\* transcript.
urlsOf(slice, owned) == SubSeq(owned, Len(owned) - Len(slice) + 1, Len(owned))

\* The URL of the message parseAgentOutput (and batchExtract's
\* history.at(-1) test) reads in what runAgent returned.
urlRead(history, owned) ==
    LET withContent == {i \in DOMAIN history :
                           history[i].role = "assistant" /\ history[i].text # ""}
    IN  IF withContent = {} THEN 0
        ELSE urlsOf(history, owned)[CHOOSE i \in withContent :
                                       \A j \in withContent : j <= i]

\* The loop is entered with the first URL.
InitBatchRun(entry) ==
    urlLoop = [pc |-> urlStart(entry), entry |-> entry, url |-> 1, owners |-> <<>>,
             atStart |-> <<>>, handed |-> <<>>, read |-> <<>>, turns |-> 0,
             jsonRetryCount |-> 0]

\* await resetMessages()
BatchReset ==
    /\ urlLoop.pc = "reset"
    /\ messages' = <<>>
    /\ window' = NoWindow
    /\ urlLoop' = [urlLoop EXCEPT !.pc = "prompt", !.owners = <<>>]
    /\ UNCHANGED outsideBatch

\* runAgent is entered: await addMessages([{ role: 'user', ... }])
BatchPrompt ==
    /\ urlLoop.pc = "prompt"
    /\ LET stored == addMessages(messages, <<UserMsg(PromptText)>>)
       IN  /\ messages' = stored
           /\ urlLoop' = [urlLoop EXCEPT
                          !.pc = "window",
                          !.atStart = Append(@, Len(messages)),
                          !.owners = @ \o repeat(urlLoop.url, Len(stored) - Len(messages)),
                          !.turns = 0, !.jsonRetryCount = 0,
                          !.handed = <<>>]
    /\ UNCHANGED window
    /\ UNCHANGED outsideBatch

\* const history = await getMessages(20), handed to runLLM.
BatchWindow ==
    /\ urlLoop.pc = "window"
    /\ urlLoop.turns < MaxTurns
    /\ LET history == getMessages(messages, <<HistoryWindow>>)
       IN  /\ window' = [called |-> TRUE, limit |-> <<HistoryWindow>>, slice |-> history]
           /\ urlLoop' = [urlLoop EXCEPT !.pc = "respond", !.turns = @ + 1,
                                     !.handed = urlsOf(history, urlLoop.owners)]
    /\ UNCHANGED messages
    /\ UNCHANGED outsideBatch

\* The iteration of a URL ends: the next URL, or the loop is over.
afterUrl(b) ==
    IF b.url < MaxBatchUrls
    THEN [b EXCEPT !.pc = urlStart(b.entry), !.url = @ + 1, !.handed = <<>>]
    ELSE [b EXCEPT !.pc = "done"]

\* runLLM resolves and the assistant message is appended; then the tool
\* branch, the repair turn, or return getMessages(20) and the reading of
\* the result.
BatchRespond(resp) ==
    /\ urlLoop.pc = "respond"
    /\ resp \in ConcResponses
    /\ IF resp.kind = "tool"
       THEN LET stored == addMessages(messages,
                              <<AssistantMsg({callId(urlLoop.url, urlLoop.turns)}, "")>>)
            IN  /\ messages' = stored
                /\ urlLoop' = [urlLoop EXCEPT
                               !.pc = "tool",
                               !.owners = @ \o repeat(urlLoop.url, Len(stored) - Len(messages))]
                /\ UNCHANGED window
       ELSE IF shouldRepair(parsedOk(resp.text), urlLoop.jsonRetryCount)
       THEN LET stored == addMessages(messages,
                              <<AssistantMsg({}, resp.text), UserMsg(RepairText)>>)
            IN  /\ messages' = stored
                /\ urlLoop' = [urlLoop EXCEPT
                               !.pc = "window", !.jsonRetryCount = @ + 1,
                               !.owners = @ \o repeat(urlLoop.url, Len(stored) - Len(messages))]
                /\ UNCHANGED window
       ELSE LET stored == addMessages(messages, <<AssistantMsg({}, resp.text)>>)
                owned == urlLoop.owners \o repeat(urlLoop.url, Len(stored) - Len(messages))
                history == getMessages(stored, <<HistoryWindow>>)
            IN  /\ messages' = stored
                /\ window' = [called |-> TRUE, limit |-> <<HistoryWindow>>,
                              slice |-> history]
                /\ urlLoop' = afterUrl([urlLoop EXCEPT !.owners = owned,
                                                   !.read = Append(@, urlRead(history, owned))])
    /\ UNCHANGED outsideBatch

\* runTool resolves and its result is appended.
BatchTool ==
    /\ urlLoop.pc = "tool"
    /\ LET stored == addMessages(messages, <<ToolMsg(callId(urlLoop.url, urlLoop.turns), 1)>>)
       IN  /\ messages' = stored
           /\ urlLoop' = [urlLoop EXCEPT
                          !.pc = "window",
                          !.owners = @ \o repeat(urlLoop.url, Len(stored) - Len(messages))]
    /\ UNCHANGED window
    /\ UNCHANGED outsideBatch

NextBatch ==
    \/ BatchReset
    \/ BatchPrompt
    \/ BatchWindow
    \/ \E resp \in ConcResponses : BatchRespond(resp)
    \/ BatchTool

InitBatch ==
    /\ \E entry \in EntryPoints : InitBatchRun(entry)
    /\ messages = <<>> /\ lastBatch = <<>> /\ window = NoWindow
    /\ InitJobs /\ IdlePipe /\ IdleConc /\ IdleQueries
    /\ IdleTimes /\ IdleHours /\ IdleTool /\ IdleScan
    /\ IdleSearch /\ IdleFlight /\ IdleLinks /\ IdleFallback

SpecBatch == InitBatch /\ [][NextBatch]_vars

(***************************************************************************)
(*                 PROPERTIES OF THE JOB LIFECYCLE SERVER                  *)
(***************************************************************************)

TransitionTable ==
    {<<"queued", "running">>, <<"running", "ready_for_review">>,
     <<"running", "failed">>, <<"ready_for_review", "approved">>,
     <<"ready_for_review", "denied">>}

\* C1: every status change of every job follows one edge of the table
\* queued->running, running->ready_for_review, running->failed,
\* ready_for_review->approved, ready_for_review->denied; hence approved and
\* denied are entered only from ready_for_review, and nothing leaves approved,
\* denied or failed.
C1_StatusFollowsTable ==
    \A id \in DOMAIN statusLog :
        \A i \in 1..(Len(statusLog[id]) - 1) :
            <<statusLog[id][i], statusLog[id][i + 1]>> \in TransitionTable

\* C2: an approve or deny request (with a well-formed body) for an existing
\* job whose status is not ready_for_review is answered with an error and
\* leaves status, reviewer, approvedAt, deniedAt and updatedAt unchanged.
C2_InvalidStateRejected ==
    [][\A kind \in {"approve", "deny"}, id \in JobIds, body \in {"empty", "r1"} :
          (/\ Review(kind, id, body)
           /\ id \in DOMAIN jobs
           /\ jobs[id].status # "ready_for_review")
          => (/\ lastResponse'.code >= 400
              /\ jobs'[id].status = jobs[id].status
              /\ jobs'[id].reviewer = jobs[id].reviewer
              /\ jobs'[id].approvedAt = jobs[id].approvedAt
              /\ jobs'[id].deniedAt = jobs[id].deniedAt
              /\ jobs'[id].updatedAt = jobs[id].updatedAt)]_vars

\* C4: every submitted job eventually reaches ready_for_review or failed
\* (provided its orchestrator call returns or throws), and never passes
\* through both.  Having reached a status is stable, so "every job that
\* exists reaches one" is "again and again, all jobs that exist have reached
\* one".
C4_ReachesExactlyOneOutcome ==
    /\ []<>(\A id \in DOMAIN statusLog :
               Range(statusLog[id]) \cap {"ready_for_review", "failed"} # {})
    /\ [](\A id \in DOMAIN statusLog :
             ~({"ready_for_review", "failed"} \subseteq Range(statusLog[id])))

C4_Witness ==
    \E a, b \in DOMAIN jobs :
        /\ jobs[a].status = "ready_for_review"
        /\ jobs[b].status = "failed"
        /\ statusLog[a] = <<"queued", "running", "ready_for_review">>
        /\ statusLog[b] = <<"queued", "running", "failed">>

\* C5: a valid POST /jobs stores a new job and answers 202 with that job in
\* status queued, i.e. as it is before the orchestrator is started; when the
\* handler is left the orchestration task of that job has been started and
\* is still in flight (nothing of it was awaited).
C5_SubmitAnswersBeforeStart ==
    [][PostJobs("valid")
          => LET id == lastResponse'.id
             IN  /\ lastResponse'.kind = "post"
                 /\ lastResponse'.code = 202
                 /\ lastResponse'.status = "queued"
                 /\ id \notin DOMAIN jobs
                 /\ id \in DOMAIN jobs'
                 /\ task'[id] = "awaiting"
                 /\ jobs'[id].output = "none"
                 /\ jobs'[id].error = "none"]_vars

C5_Witness ==
    /\ lastResponse.kind = "post"
    /\ lastResponse.code = 202
    /\ lastResponse.id \in DOMAIN jobs
    /\ task[lastResponse.id] = "awaiting"

\* C6: a job in ready_for_review has output and no error, a job in failed
\* has error and no output, and running was assigned before either status.
C6_OutcomeFields ==
    \A id \in DOMAIN jobs :
        /\ jobs[id].status = "ready_for_review"
              => (jobs[id].output # "none" /\ jobs[id].error = "none")
        /\ jobs[id].status = "failed"
              => (jobs[id].error # "none" /\ jobs[id].output = "none")
        /\ \A i \in DOMAIN statusLog[id] :
              statusLog[id][i] \in {"ready_for_review", "failed"}
                 => \E k \in 1..(i - 1) : statusLog[id][k] = "running"

C6_Witness ==
    \E a, b \in DOMAIN jobs :
        /\ jobs[a].status = "ready_for_review" /\ jobs[a].output = "out"
        /\ jobs[b].status = "failed" /\ jobs[b].error = "err"

\* C18: a request whose body is not valid JSON is answered 400 and creates
\* or changes no job, for POST /jobs and equally for approve and deny of an
\* existing job; a POST /jobs whose city, state or category is missing or
\* blank is answered 400 without creating a job.
C18_MalformedBodyRejected ==
    [][/\ \A body \in {"malformed", "blank"} :
             PostJobs(body) => (lastResponse'.code = 400 /\ jobs' = jobs)
       /\ \A kind \in {"approve", "deny"}, id \in DOMAIN jobs :
             Review(kind, id, "malformed") =>
                (lastResponse'.code = 400 /\ jobs' = jobs)]_vars

\* C19: a GET, approve or deny request for an identifier that no submission
\* returned is answered 404 and changes no job; no step removes a job from
\* the store, and GET /jobs/:id for a created job answers 200 in every
\* later state.
C19_UnknownIs404AndJobsStay ==
    [][/\ \A id \in JobIds \ DOMAIN jobs :
             /\ GetJob(id) => (lastResponse'.code = 404 /\ jobs' = jobs)
             /\ \A kind \in {"approve", "deny"}, body \in ReviewBodies :
                   Review(kind, id, body) => (lastResponse'.code = 404 /\ jobs' = jobs)
       /\ DOMAIN jobs \subseteq DOMAIN jobs'
       /\ \A id \in DOMAIN jobs :
             GetJob(id) => (lastResponse'.code = 200 /\ lastResponse'.id = id
                            /\ lastResponse'.status = jobs[id].status)]_vars

\* A job that was created and reviewed is fetched with 200 while
\* another identifier is still unknown.
C19_Witness ==
    /\ lastResponse.kind = "get"
    /\ lastResponse.code = 200
    /\ lastResponse.id \in DOMAIN jobs
    /\ jobs[lastResponse.id].status \in {"approved", "denied"}
    /\ JobIds \ DOMAIN jobs # {}

\* C36: a job with status approved has approvedAt set, deniedAt unset and
\* output populated; a job with status denied has deniedAt set, approvedAt
\* unset and output populated; a job with any other status has neither
\* approvedAt nor deniedAt set.
C36_ReviewFieldsMatchStatus ==
    \A id \in DOMAIN jobs :
        /\ jobs[id].status = "approved" =>
              (jobs[id].approvedAt # 0 /\ jobs[id].deniedAt = 0 /\ jobs[id].output # "none")
        /\ jobs[id].status = "denied" =>
              (jobs[id].deniedAt # 0 /\ jobs[id].approvedAt = 0 /\ jobs[id].output # "none")
        /\ jobs[id].status \notin {"approved", "denied"} =>
              (jobs[id].approvedAt = 0 /\ jobs[id].deniedAt = 0)

\* The handlers that act on the job a.
ActsOn(a) ==
    \/ PipelineReturns(a)
    \/ PipelineThrows(a)
    \/ \E kind \in {"approve", "deny"}, body \in ReviewBodies : Review(kind, a, body)

\* C37: an orchestration step, an approve or a deny of one job leaves every
\* field of every other job as it was; no step changes the createdAt or the
\* input of a job or the identifier it is stored under, and no step changes
\* more than one stored job, however the tasks of the jobs interleave.
C37_OtherJobsUntouched ==
    [][/\ DOMAIN jobs \subseteq DOMAIN jobs'
       /\ \A id \in DOMAIN jobs :
             /\ jobs'[id].createdAt = jobs[id].createdAt
             /\ jobs'[id].input = jobs[id].input
       /\ \A a \in DOMAIN jobs :
             ActsOn(a) => \A b \in DOMAIN jobs \ {a} : jobs'[b] = jobs[b]
       /\ Cardinality({id \in DOMAIN jobs : jobs'[id] # jobs[id]}) <= 1]_vars

\* One job went through its task and an approval while the task of another
\* is still awaiting its run, the record of that job as it was when started.
C37_Witness ==
    \E a, b \in DOMAIN jobs :
        /\ a # b
        /\ jobs[a].status = "approved" /\ jobs[a].output = "out"
        /\ jobs[a].updatedAt > jobs[a].createdAt
        /\ task[b] = "awaiting"
        /\ jobs[b] = startPipelineSync(newJob(FirstInstant), FirstInstant)

(***************************************************************************)
(*                 PROPERTIES OF THE CONVERSATION WINDOW                   *)
(***************************************************************************)
\* Message p of seq is a tool message, and an assistant message holding its
\* tool_call_id stands among the first n messages of seq.
OwnerWithin(seq, id, n) ==
    \E q \in 1..n : seq[q].role = "assistant" /\ id \in seq[q].calls

\* C3 as stated: the slice returned by getMessages(limit) contains no tool
\* message unless an assistant message whose tool_calls include its
\* tool_call_id appears at an earlier position of the slice.
C3_NoToolWithoutOwner ==
    window.called =>
        \A p \in DOMAIN window.slice :
            window.slice[p].role = "tool"
               => OwnerWithin(window.slice, window.slice[p].id, p - 1)

\* C3 as amended: a tool message of the returned slice whose tool_call_id is
\* held by an assistant message at an earlier position of the transcript has
\* such an assistant message at an earlier position of the slice.
C3_OwnerInSliceWhenInTranscript ==
    window.called =>
        LET sl == window.slice
            off == Len(messages) - Len(sl)
        IN  \A p \in DOMAIN sl :
                (sl[p].role = "tool" /\ OwnerWithin(messages, sl[p].id, off + p - 1))
                   => OwnerWithin(sl, sl[p].id, p - 1)

\* The window was widened twice: limit 1 ends on a tool message, its owner
\* uncovers a second tool message, whose owner lies still earlier.
C3_Witness ==
    /\ window.called
    /\ window.limit = <<1>>
    /\ Len(window.slice) = 4
    /\ window.slice[4].role = "tool"
    /\ window.slice[3].role = "tool"
    /\ window.slice[1].role = "assistant"
    /\ window.slice[3].id \in window.slice[1].calls
    /\ window.slice[3].id \notin window.slice[2].calls


\* getMessages() was called without a limit on a transcript of two or more
\* messages, and the transcript has not changed since.
NoLimitCall == window.called /\ window.limit = <<>> /\ Len(messages) >= 2

\* The tool message at position k has its owning assistant message, the
\* first one holding its id, before position s.
OwnerBefore(k, s) ==
    /\ messages[k].role = "tool"
    /\ messages[k].id # 0
    /\ assistantIndex(messages, messages[k].id) # 0
    /\ assistantIndex(messages, messages[k].id) < s

\* C14 as claimed: without a limit, on two or more messages, the result is
\* exactly the most recent message, or, when that is a tool message whose
\* owning assistant message lies earlier, the suffix starting at that
\* assistant message.
C14_LastOrOwnerSuffix ==
    NoLimitCall =>
       LET n == Len(messages)
       IN  window.slice = IF OwnerBefore(n, n)
                          THEN SubSeq(messages, assistantIndex(messages, messages[n].id), n)
                          ELSE <<messages[n]>>

\* The suffix from s holds the owner of each of its tool messages that has
\* one in the transcript.
ClosedFrom(s) == \A k \in s..Len(messages) : ~OwnerBefore(k, s)

\* C14 amended: without a limit, on two or more messages, the result is the
\* shortest suffix that holds the most recent message and, for every tool
\* message in it that has an owning assistant message earlier in the
\* transcript, that assistant message.
C14_ShortestClosedSuffix ==
    NoLimitCall =>
       LET n == Len(messages)
           starts == {s \in 1..n : ClosedFrom(s)}
           s0 == CHOOSE s \in starts : \A t \in starts : t <= s
       IN  /\ starts # {}
           /\ window.slice = SubSeq(messages, s0, n)

\* A call without a limit whose result was widened twice: the owner of the
\* last message is the second message, and a tool message after it pulls in
\* the first.
C14_Witness ==
    /\ NoLimitCall
    /\ Len(messages) = 4
    /\ OwnerBefore(4, 4)
    /\ assistantIndex(messages, messages[4].id) = 2
    /\ OwnerBefore(3, 2)
    /\ window.slice = messages

\* getMessages(limit) was called with a limit given, and the transcript has
\* not changed since.
LimitCall == window.called /\ window.limit # <<>>

\* C27: getMessages(limit) returns a suffix of the transcript: all of it
\* when it has at most limit messages; exactly the last limit messages when
\* none of them is a tool message whose owning assistant message lies
\* before them; otherwise the shortest suffix that holds the last limit
\* messages and, for each of its tool messages, the first assistant message
\* carrying its tool_call_id.
C27_SuffixClosedUnderOwners ==
    LimitCall =>
       LET n == Len(messages)
           limit == window.limit[1]
           last == n - limit + 1
           starts == {s \in 1..(n + 1) : s <= last /\ ClosedFrom(s)}
           s0 == CHOOSE s \in starts : \A t \in starts : t <= s
       IN  /\ \E s \in 1..(n + 1) : window.slice = SubSeq(messages, s, n)
           /\ n <= limit => window.slice = messages
           /\ (n > limit /\ ClosedFrom(last)) =>
                 window.slice = SubSeq(messages, last, n)
           /\ (n > limit /\ ~ClosedFrom(last)) =>
                 /\ starts # {}
                 /\ window.slice = SubSeq(messages, s0, n)

\* getMessages(2) on four messages returned all four: the last two are tool
\* messages, the owner of the first of them is the second message, and the
\* owner of the other is the first message.
C27_Witness ==
    /\ LimitCall
    /\ window.limit = <<2>>
    /\ Len(messages) = 4
    /\ OwnerBefore(3, 3)
    /\ assistantIndex(messages, messages[3].id) = 2
    /\ OwnerBefore(4, 2)
    /\ window.slice = messages

\* C28: the widening loop of getMessages ends at a fixed point: the window
\* start never increases and never falls below the first message, every
\* widening step strictly decreases it, the number of widening steps stays
\* below the transcript length, the call returns, and on return no tool
\* message of the window has its owning assistant message before the
\* window start.
C28_WideningReachesFixedPoint ==
    /\ [](scan.pc = "loop" =>
            /\ scan.start >= 1
            /\ scan.start <= Len(messages) + 1
            /\ scan.steps < Len(messages))
    /\ [][(scan.pc = "loop" /\ scan'.pc = "loop") =>
            /\ scan'.start < scan.start
            /\ scan'.steps = scan.steps + 1]_vars
    /\ [][(scan.pc = "loop" /\ scan'.pc = "returned") =>
            /\ ClosedFrom(scan.start)
            /\ window'.slice = SubSeq(messages, scan.start, Len(messages))
            /\ window'.slice = getMessages(messages, scan.limit)]_vars
    /\ <>(scan.pc = "returned")

\* A call that returned after two widening steps.
C28_Witness ==
    /\ scan.pc = "returned"
    /\ scan.steps = 2
    /\ scan.start = 1
    /\ window.slice = messages

\* Positions of the batch elements that are non-null objects with a role key.
ValidAt(batch) ==
    {i \in DOMAIN batch : batch[i].shape = "object" /\ batch[i].role # "absent"}

\* C15: addMessages grows the transcript by exactly the number of batch
\* elements that are non-null objects having a role key; an element without
\* a role key, a null and a primitive are dropped, and the valid elements of
\* the same batch are appended after the old transcript in their original
\* order.  (A step with a batch in lastBatch' is an addMessages call.)
C15_ValidElementsAppended ==
    [][lastBatch' # <<>> =>
          LET batch == lastBatch'
              n == Len(messages)
              valid == ValidAt(batch)
          IN  /\ Len(messages') = n + Cardinality(valid)
              /\ SubSeq(messages', 1, n) = messages
              /\ \A i \in valid :
                    LET j == Cardinality({k \in valid : k <= i})
                    IN  /\ messages'[n + j].role = batch[i].role
                        /\ messages'[n + j].id = batch[i].id
                        /\ messages'[n + j].calls = batch[i].calls
                        /\ messages'[n + j].text = batch[i].text]_vars

\* A batch whose first element has no role key and whose second is a user
\* message was added to a transcript that was not empty: only the user
\* message was appended.
C15_Witness ==
    /\ lastBatch = <<NoRoleElement, UserMsg("text")>>
    /\ Len(messages) >= 2
    /\ messages[Len(messages)] = UserMsg("text")
    /\ messages[Len(messages) - 1].role = "assistant"

\* The message handed to the addMessages call just made, and what the
\* transcript holds for it.
Original == lastBatch[1]
Stored == messages[Len(messages)]

\* C16: a tool message whose content has length L greater than 16000 is
\* stored as its first 16000 characters followed by the marker
\* '...[truncated N chars]' with N exactly L - 16000; a tool message with L
\* at most 16000, and a message of any other role whatever its size, is
\* stored unchanged.
C16_TruncatedWithExactCount ==
    lastBatch # <<>> =>
       IF Original.role = "tool" /\ Original.len > 16000
       THEN /\ Stored.cut = Original.len - 16000
            /\ Stored.len = 16000 + markerLength(Original.len - 16000)
            /\ Stored = [Original EXCEPT !.cut = Stored.cut, !.len = Stored.len]
       ELSE Stored = Original

\* The tool message of 20000 characters of the repository's test was
\* stored and read back with 4000 characters cut.
C16_Witness ==
    /\ lastBatch # <<>>
    /\ Original.role = "tool"
    /\ Original.len = 20000
    /\ Stored.cut = 4000
    /\ window.called
    /\ window.slice = <<Stored>>

\* C17: for every tool message whose content is longer than 16000
\* characters, the stored content (kept prefix plus marker) is strictly
\* shorter than the original content.
C17_StoredShorterThanOriginal ==
    (lastBatch # <<>> /\ Original.role = "tool" /\ Original.len > 16000)
       => Stored.len < Original.len

(***************************************************************************)
(*               PROPERTIES OF THE AGENT LOOP AND PIPELINE                 *)
(***************************************************************************)
\* Positions of the repair user message in the transcript of the run.
Repairs == {i \in DOMAIN messages :
               messages[i].role = "user" /\ messages[i].text = RepairText}

\* Positions of the content responses in the transcript of the run.
Contents == {i \in DOMAIN messages :
                messages[i].role = "assistant" /\ messages[i].text # ""}

\* A content response that fails the raw parse and the substring parse.
FailsBothParses(text) ==
    /\ JsonParse(text) = "throws"
    /\ ~(hasBraceSlice(text) /\ JsonParse(braceSlice(text)) # "throws")

\* C7: one runAgent execution appends at most one repair user message; the
\* repair message directly follows a content response that fails both the
\* raw parse and the first-'{'-to-last-'}' substring parse; and the content
\* response after the repair, parsing or not, is the last message of the
\* run: no repair and no model call follows it.
C7_AtMostOneRepair ==
    /\ Cardinality(Repairs) <= 1
    /\ pc \in {"agent", "tool", "returned"} => jsonRetryCount = Cardinality(Repairs)
    /\ \A i \in Repairs :
          /\ i - 1 \in Contents
          /\ FailsBothParses(messages[i - 1].text)
          /\ \A j \in Contents : j > i =>
                /\ j = Len(messages)
                /\ pc \notin {"agent", "tool"}

\* A run that was repaired once and ended on a second unparseable response.
C7_Witness ==
    /\ pc = "returned"
    /\ Cardinality(Repairs) = 1
    /\ FailsBothParses(messages[Len(messages)].text)
    /\ messages[Len(messages)].role = "assistant"
    /\ Len(agentHistory) = Len(messages)

C9_RenderFailureScoped ==
    /\ pc = "rejected" => failure # "render"
    /\ \A i \in DOMAIN scraped :
          ~scraped[i].httpOk =>
             /\ scraped[i].error
             /\ \A k \in DOMAIN extracted :
                   extracted[k].url = scraped[i].url => extracted[k].doc.kind = "shell"

\* C10: a failure of the search call for one query, retries exhausted, or
\* of the completion call for one URL never ends the run.
C10_SearchAndCompletionFailureScoped ==
    pc = "rejected" => failure \notin {"search", "completion"}


\* The URLs of all queries, read in query order and then in result order.
AllReturned == concatUrls(searchResults)

\* Position of the first occurrence of u in seq.
FirstAt(seq, u) == CHOOSE i \in DOMAIN seq : seq[i] = u /\ \A j \in 1..(i - 1) : seq[j] # u

\* The merge has happened: the per-URL loop was entered or the run is over.
Merged == Len(searchResults) = MaxQueries /\ pc \notin {"start", "search"}

\* C11: the merged candidate list holds every URL returned by any query
\* exactly once, in the order of the first occurrences when the per-query
\* lists are read in query order and then in result order; the URLs
\* processed are its prefix of length min(maxUrls, length of the merged
\* list).
C11_MergeFirstSeenAndPrefix ==
    Merged =>
       LET merged == orderedUrls(searchResults)
       IN  /\ Range(merged) = Range(AllReturned)
           /\ \A i, j \in DOMAIN merged : i # j => merged[i] # merged[j]
           /\ \A i, j \in DOMAIN merged :
                 i < j => FirstAt(AllReturned, merged[i]) < FirstAt(AllReturned, merged[j])
           /\ Len(urlsToScrape) = Min(MaxUrlsArg, Len(merged))
           /\ \A k \in DOMAIN urlsToScrape : urlsToScrape[k] = merged[k]

\* Queries returning [a,b] and [b,c] were merged to [a,b,c], of which a
\* prefix is processed.
C11_Witness ==
    /\ Merged
    /\ \E q \in DOMAIN searchResults :
          /\ q + 1 \in DOMAIN searchResults
          /\ searchResults[q].urls = <<"a", "b">>
          /\ searchResults[q + 1].urls = <<"b", "c">>
    /\ orderedUrls(searchResults) = <<"a", "b", "c">>
    /\ urlsToScrape = SubSeq(<<"a", "b", "c">>, 1, Min(MaxUrlsArg, 3))

\* C12: after each iteration of the per-URL loop the sanity array and the
\* extracted array have exactly one entry per URL processed so far, in
\* processing order; at the end of a run the length of the sanity array is
\* the number of processed URLs, which is at most maxUrls.
C12_OneSanityDocPerUrl ==
    /\ Len(sanityDocs) = Len(extracted)
    /\ ui >= 1 => Len(sanityDocs) = ui - 1
    /\ \A i \in DOMAIN sanityDocs :
          /\ i \in DOMAIN urlsToScrape
          /\ extracted[i].url = urlsToScrape[i]
          /\ extracted[i].doc = sanityDocs[i]
    /\ pc = "done" =>
          /\ Len(sanityDocs) = Len(urlsToScrape)
          /\ Len(sanityDocs) <= MaxUrlsArg

\* A finished run that had more candidates than maxUrls and processed
\* exactly maxUrls of them.
C12_Witness ==
    /\ pc = "done"
    /\ Len(orderedUrls(searchResults)) > MaxUrlsArg
    /\ Len(sanityDocs) = MaxUrlsArg
    /\ Len(extracted) = MaxUrlsArg

\* C21: every record of the sanity array and of the extracted array, agent
\* or fallback, has every key of a service record.
C21_EveryRecordShapeComplete ==
    /\ \A i \in DOMAIN sanityDocs : docKeys(sanityDocs[i]) = RecordKeys
    /\ \A i \in DOMAIN extracted : docKeys(extracted[i].doc) = RecordKeys

\* C22: every entry of the sanity array names the category given to the
\* run, whether tagged agent or fallback.
C22_EveryEntryNamesRunCategory ==
    \A i \in DOMAIN sanityDocs :
        /\ extracted[i].method \in {"agent", "fallback"}
        /\ docCategory(sanityDocs[i]) = Category

\* C31 (as stated): whenever runAgent has returned and parseAgentOutput does
\* not accept its final content as a record, so that the URL goes to the
\* fallback path, a repair turn was issued during that agent run; the check
\* of runAgent and the check of parseAgentOutput agree on the content.
C31_FallbackOnlyAfterRepair ==
    (pc = "returned" /\ ~agentPathSucceeded(parseAgentOutput(agentHistory)))
        => jsonRetryCount = 1

(***************************************************************************)
(*                 PROPERTIES OF THE CONTENT EXTRACTOR                     *)
(***************************************************************************)
\* The four time tokens of the specification.
NineOClockTokens ==
    {<<"9", ":", "0", "0", "a", "m">>, <<"9", ":", "0", "0", " ", "a", "m">>,
     <<"0", "9", "0", "0">>, <<"9">>}

\* C24: toPeriodTime maps each of "9:00am", "9:00 am", "0900" and "9" to
\* the 4-digit 24-hour token "0900".
C24_NineOClockTokensGive0900 ==
    (/\ timeCall.pc = "returned"
     /\ timeCall.isString
     /\ timeCall.chars \in NineOClockTokens)
       => timeCall.result = TimeString(<<"0", "9", "0", "0">>)

IsTimeOfDay(chars) ==
    /\ Len(chars) = 4
    /\ \A i \in 1..4 : isDigit(chars[i])
    /\ parseInt(SubSeq(chars, 1, 2)) <= 23
    /\ parseInt(SubSeq(chars, 3, 4)) <= 59

\* C40: every period the extractor returns has open.day and close.day in
\* 0..6 and open.time and close.time that are 4-digit HHMM strings with HH
\* in 00..23 and MM in 00..59, whatever dayOfWeek, opens and closes the
\* structured data holds.
C40_PeriodsWithinDayAndClock ==
    \A r \in {hoursRun.first[k] : k \in DOMAIN hoursRun.first}
             \cup {hoursRun.again[k] : k \in DOMAIN hoursRun.again} :
        \A i \in DOMAIN r.periods :
            /\ r.periods[i].open.day \in 0..6
            /\ r.periods[i].close.day \in 0..6
            /\ IsTimeOfDay(r.periods[i].open.time)
            /\ IsTimeOfDay(r.periods[i].close.time)

(***************************************************************************)
(*               PROPERTIES OF THE AGENT LOOP ON ITS OWN                   *)
(***************************************************************************)
\* The model turns the call of runAgent under way (or the last one) has
\* taken: the assistant messages behind its prompt.
TurnsOfCall ==
    LET prompts == {i \in DOMAIN messages :
                       messages[i].role = "user" /\ messages[i].text = PromptText}
        begun == IF prompts = {} THEN 0
                 ELSE CHOOSE i \in prompts : \A j \in prompts : j <= i
    IN  Cardinality({i \in DOMAIN messages : i > begun /\ messages[i].role = "assistant"})

\* C26 (as stated): the agent loop is bounded; a call of runAgent that has
\* taken MaxRounds model turns has ended, by returning or by rejecting.
C26_LoopEndsWithinTurnBound ==
    TurnsOfCall = MaxRounds => pc \in {"returned", "rejected"}

\* The place of a tool call in the tool_calls array of its assistant message.
CallRank(calls, id) == Cardinality({c \in calls : c <= id})

\* The assistant message at position o has the tool messages of its first n
\* tool calls right behind it, in tool-call order.
AnsweredUpTo(o, n) ==
    \A p \in (o + 1)..(o + n) :
        /\ p \in DOMAIN messages
        /\ messages[p].role = "tool"
        /\ messages[p].id \in messages[o].calls
        /\ CallRank(messages[o].calls, messages[p].id) = p - o

\* The position of the last assistant message of the transcript, 0 if none.
LastAssistant ==
    LET hits == {i \in DOMAIN messages : messages[i].role = "assistant"}
    IN  IF hits = {} THEN 0 ELSE CHOOSE i \in hits : \A j \in hits : j <= i

\* C29: in a run of runAgent every tool message stands behind the assistant
\* message that holds its tool call, at the place of that call in the
\* tool_calls array; when a model turn is requested every tool call of every
\* assistant message has its one tool message; while the tool calls of the
\* last assistant message are executed that message is already in the
\* transcript, followed by the results of the calls executed so far.
C29_ToolMessagesFollowTheirAssistant ==
    /\ \A p \in DOMAIN messages :
          messages[p].role = "tool" =>
              LET o == assistantIndex(messages, messages[p].id)
              IN  /\ o # 0
                  /\ o < p
                  /\ p = o + CallRank(messages[o].calls, messages[p].id)
    /\ LET last == LastAssistant
       IN  /\ \A o \in DOMAIN messages :
                 (messages[o].role = "assistant" /\ (pc = "agent" \/ o # last))
                     => AnsweredUpTo(o, Cardinality(messages[o].calls))
           /\ pc = "tool" =>
                 /\ last # 0
                 /\ pendingCalls # <<>>
                 /\ {pendingCalls[k] : k \in DOMAIN pendingCalls}
                        \subseteq messages[last].calls
                 /\ Len(messages) = last + Cardinality(messages[last].calls)
                                         - Len(pendingCalls)
                 /\ AnsweredUpTo(last, Len(messages) - last)

\* A model turn is requested after an assistant message with two tool calls
\* was answered by its two tool messages.
C29_Witness ==
    /\ pc = "agent"
    /\ Len(messages) >= 4
    /\ messages[Len(messages) - 2].role = "assistant"
    /\ Cardinality(messages[Len(messages) - 2].calls) = 2
    /\ messages[Len(messages) - 1].role = "tool"
    /\ messages[Len(messages)].role = "tool"
    /\ messages[Len(messages) - 1].id < messages[Len(messages)].id

\* C30: every window of the transcript that runAgent hands to the model
\* holds, for each of its tool messages, the assistant message with that
\* tool call at an earlier place, wherever the boundary of the last 20
\* messages falls.
C30_ModelWindowHoldsOwners ==
    (window.called /\ window.limit = <<HistoryWindow>>) =>
        \A p \in DOMAIN window.slice :
            window.slice[p].role = "tool" =>
                \E q \in 1..(p - 1) :
                    /\ window.slice[q].role = "assistant"
                    /\ window.slice[p].id \in window.slice[q].calls

\* The boundary of the last 20 messages fell on the second tool message of
\* an assistant message, and the window handed to the model was widened by
\* two places to begin at that assistant message.
C30_Witness ==
    /\ window.called
    /\ Len(window.slice) = HistoryWindow + 2
    /\ window.slice[1].role = "assistant"
    /\ window.slice[2].role = "tool"
    /\ window.slice[3].role = "tool"
    /\ window.slice[3].id \in window.slice[1].calls

(***************************************************************************)
(*                  PROPERTIES OF THE SEARCH WITH RETRIES                  *)
(***************************************************************************)
\* The call is over: it returned or it threw.
SearchOver == search.pc \in {"returned", "thrown"}

\* At most maxRetries + 1 requests; every response but the last was a 429
\* or a 5xx; a response that is neither a success nor one of those, and a
\* failed response to the last allowed request, made the call throw; the
\* k-th retry was preceded by a wait of retryDelayMs * k.
RetryDiscipline ==
    /\ search.requests <= search.maxRetries + 1
    /\ Len(search.statuses) = search.requests
    /\ \A k \in 1..(search.requests - 1) :
          /\ ~responseOk(search.statuses[k])
          /\ search.statuses[k] = 429 \/ search.statuses[k] >= 500
    /\ search.requests > 0 =>
          LET last == search.statuses[search.requests]
          IN  /\ (~responseOk(last) /\ ~(last = 429 \/ last >= 500))
                    => search.pc = "thrown"
              /\ (~responseOk(last) /\ search.requests = search.maxRetries + 1)
                    => search.pc = "thrown"
              /\ search.pc = "returned" => responseOk(last)
    /\ search.requests <= Len(search.waits) + 1
    /\ Len(search.waits) = search.attempt + (IF search.pc = "waiting" THEN 1 ELSE 0)
    /\ \A k \in DOMAIN search.waits : search.waits[k] = search.retryDelayMs * k

\* C32 (as stated): the retry discipline holds, successive waits strictly
\* increase, and the call always ends.
C32_RetriesBoundedWaitsIncrease ==
    /\ [](RetryDiscipline
          /\ \A k \in 1..(Len(search.waits) - 1) : search.waits[k] < search.waits[k + 1])
    /\ <>SearchOver

\* C32 (amended): the retry discipline holds, successive waits strictly
\* increase when retryDelayMs is positive (they are all 0 when it is 0), and
\* the call always ends.
C32_RetriesBoundedWaitsGrowWithDelay ==
    /\ [](RetryDiscipline
          /\ \A k \in 1..(Len(search.waits) - 1) :
                IF search.retryDelayMs > 0
                THEN search.waits[k] < search.waits[k + 1]
                ELSE search.waits[k] = 0 /\ search.waits[k + 1] = 0)
    /\ <>SearchOver

\* With the default options the fourth request got a 503 after three waits
\* of 1100, 2200 and 3300 ms, and the call threw.
C32_Witness ==
    /\ search.pc = "thrown"
    /\ search.maxRetries = DEFAULT_MAX_RETRIES
    /\ search.requests = 4
    /\ search.statuses[4] = 503
    /\ search.waits = <<1100, 2200, 3300>>

(***************************************************************************)
(*                PROPERTIES OF THE CALLS OF ONE RUN                       *)
(***************************************************************************)
\* The log holds the entry at a place before p.
LoggedBefore(entry, p) == \E q \in 1..(p - 1) : flight.log[q] = entry

\* C33: at most one search call or extraction is in flight; the search for
\* a later query is issued only after the search for the query before it
\* resolved and, when there is a delay between queries, after that delay
\* elapsed; no delay follows the last query; results[i].query is queries[i];
\* the extraction of a later URL starts only after the record of the URL
\* before it was appended, and no extraction starts before the last search
\* resolved.
C33_OneCallInFlightInOrder ==
    /\ Cardinality(flight.inFlight) <= 1
    /\ \A p \in DOMAIN flight.log :
          LET kind == flight.log[p][1]
              k == flight.log[p][2]
          IN  /\ (kind = "issued" /\ k > 1) =>
                    /\ LoggedBefore(Logged("resolved", k - 1), p)
                    /\ flight.delayMs > 0 => flight.log[p - 1] = Logged("delayed", k - 1)
              /\ kind = "delayed" => k < Len(flight.queries)
              /\ (kind = "started" /\ k > 1) => flight.log[p - 1] = Logged("appended", k - 1)
              /\ (kind = "started" /\ k = 1) =>
                    flight.log[p - 1] = Logged("resolved", Len(flight.queries))
    /\ Len(flight.results) <= Len(flight.queries)
    /\ \A i \in DOMAIN flight.results : flight.results[i].query = flight.queries[i]
    /\ \A j \in DOMAIN flight.records : flight.records[j].url = flight.urls[j]

\* A run of three queries with the default delay and two URLs is over: the
\* delay elapsed twice and both records are appended.
C33_Witness ==
    /\ flight.pc = "done"
    /\ Len(flight.queries) = 3
    /\ flight.delayMs = DEFAULT_DELAY_MS
    /\ Len(flight.records) = 2
    /\ Cardinality({p \in DOMAIN flight.log : flight.log[p][1] = "delayed"}) = 2

(***************************************************************************)
(*                 PROPERTIES OF THE FALLBACK PATH OF ONE URL              *)
(***************************************************************************)
\* The renders of the current URL are the page and then its candidates by
\* rank, no more than HOURS_LINK_LIMIT of them.
RendersInRankOrder ==
    /\ Len(fallback.renders) <= 1 + HOURS_LINK_LIMIT
    /\ Len(fallback.renders) - 1 <= fallback.ranked
    /\ \A i \in DOMAIN fallback.renders : fallback.renders[i] = i - 1

\* The hours the pushed record of the current URL carries.
LastDoc == fallback.docs[Len(fallback.docs)]

\* C34: On the fallback path of one URL a candidate link is rendered only
\* when the render of the page gave neither weekdayText nor periods; at most
\* 3 candidates are rendered, in rank order; the first candidate with hours
\* ends the probing and its hours are the record's; when no candidate has
\* hours the record's hours are empty.  No URL causes more than 4 renders.
C34_ProbesBoundedStopAtFirstHours ==
    /\ RendersInRankOrder
    /\ Len(fallback.renders) <= 4
    /\ Len(fallback.renders) > 1 =>
          /\ fallback.first # <<>>
          /\ ~fallback.first[1].weekdayText /\ ~fallback.first[1].periods
    /\ \A i \in DOMAIN fallback.seen :
          /\ fallback.seen[i].from = i
          /\ hoursPresent(fallback.seen[i]) =>
                /\ i = Len(fallback.seen)
                /\ fallback.pc = "done"
                /\ Len(fallback.renders) = i + 1
                /\ LastDoc = fallback.seen[i]
    /\ (/\ fallback.pc = "done"
        /\ hoursMissing(fallback.first[1])
        /\ \A i \in DOMAIN fallback.seen : ~hoursPresent(fallback.seen[i]))
          => (~LastDoc.weekdayText /\ ~LastDoc.periods)

\* The third of four ranked candidates is the first with hours and the
\* record carries them; the fourth is never rendered.
C34_Witness ==
    /\ fallback.pc = "done"
    /\ fallback.ranked = 4
    /\ fallback.renders = <<0, 1, 2, 3>>
    /\ ~hoursPresent(fallback.seen[1]) /\ ~hoursPresent(fallback.seen[2])
    /\ fallback.seen[3] = HoursFrom(3, FALSE, TRUE)
    /\ LastDoc = HoursFrom(3, FALSE, TRUE)

(***************************************************************************)
(*                PROPERTIES OF THE CANDIDATE LINKS OF A PAGE              *)
(***************************************************************************)
\* C39: getHoursCandidateLinks returns only links of the page's origin,
\* never the page's own URL however the base URL is spelled (with or without
\* the trailing slash), no URL twice, only links that match a keyword, and
\* the links in the order of the rank of the best keyword each matches.
C39_SameOriginNotSelfRankedOnce ==
    linkCall.pc = "returned" =>
       LET baseUrl == linkCall.base[1]
           found == linkCall.links
       IN  /\ \A i \in DOMAIN found :
                 /\ found[i].url.host = baseOf(baseUrl).host
                 /\ found[i].url # baseOf(baseUrl)
                 /\ found[i].score > 0
                 /\ \E k \in DOMAIN linkCall.page :
                       /\ newURL(linkCall.page[k].href, baseUrl) = found[i].url
                       /\ linkScore(linkCall.page[k], found[i].url) = found[i].score
           /\ \A i, j \in DOMAIN found :
                 /\ i # j => found[i].url # found[j].url
                 /\ i < j => found[i].score >= found[j].score

(***************************************************************************)
(*                    PROPERTIES OF THE TOOL RUNNER                        *)
(***************************************************************************)
\* C25: runTool resolves to a string for every tool call and never
\* rejects; a call naming an unregistered tool resolves to the 'Unknown
\* tool' error string and a call with arguments that are not JSON to an
\* error string, no handler being invoked in either case; a handler result
\* that is no string is returned as its JSON text.
C25_ResolvesToStringNeverRejects ==
    /\ toolRun.pc = "settled" =>
          /\ toolRun.settled.state = "resolved"
          /\ toolRun.call.name \notin RegisteredTools =>
                toolRun.settled.value = "Unknown tool" /\ ~toolRun.invoked
          /\ toolRun.call.arguments = "malformed" =>
                /\ toolRun.settled.value \in {"Invalid tool argument JSON", "Unknown tool"}
                /\ ~toolRun.invoked
    /\ toolRun.pc = "handler" => toolRun.call.name \in RegisteredTools

(***************************************************************************)
(*                 PROPERTIES OF CONCURRENT JOBS                           *)
(***************************************************************************)
\* C13: when two jobs run concurrently, no message appended by one job's
\* agent run appears in a window handed to the model for the other job, and
\* no reset performed by one job removes messages of the other job's
\* conversation in progress.
C13_WindowsNotShared ==
    /\ \A id \in ConcurrentJobs : \A k \in DOMAIN handed[id] : handed[id][k] = id
    /\ wiped = {}

(***************************************************************************)
(*            PROPERTIES OF THE AGENT PATH, ONE URL AFTER ANOTHER          *)
(***************************************************************************)
\* C35: at the start of the agent path of every URL the transcript is
\* empty, every window handed to the model holds only messages appended for
\* the current URL, and the assistant message read as the result of a URL
\* was appended for that URL.
C35_EveryUrlStartsWithEmptyTranscript ==
    /\ \A i \in DOMAIN urlLoop.atStart : urlLoop.atStart[i] = 0
    /\ \A k \in DOMAIN urlLoop.handed : urlLoop.handed[k] = urlLoop.url
    /\ \A i \in DOMAIN urlLoop.read : urlLoop.read[i] = i

FirstOutputFailedValidation ==
    /\ qgen.first # <<>>
    /\ qgen.first[1].kind = "text"
    /\ ~qgen.first[1].valid

\* C38: one call of runQueryGenerator makes at most two model calls; the
\* second, the repair call, is made only when the first output failed
\* validation, and no more than once; when the repaired output fails
\* validation too the call throws and gives no queries, padded or truncated.
C38_RepairOnlyAfterFailedValidation ==
    /\ qgen.calls <= 2
    /\ (qgen.pc = "repair" \/ qgen.calls = 2) => FirstOutputFailedValidation
    /\ qgen.pc = "threw" =>
          /\ qgen.calls = 2
          /\ ~attemptGenerate(qgen.output).ok
          /\ qgen.result = <<>>
    /\ (qgen.pc = "returned" /\ qgen.calls = 2) => attemptGenerate(qgen.output).ok

====
